---- MODULE Spec2Model ----
(***************************************************************************)
(* Model of the convergence-core AutonomousController                      *)
(* (autonomous-controller.ts): operation modes, the priority task queue,   *)
(* the dispatch loop, task execution with retries, the capability router,  *)
(* the health monitor with its cooldown timers and the decision log; and   *)
(* of the AutoConfigManager service registry (auto-config.ts):             *)
(* start() in its phases, stop(), registration, forceHealthCheck(), the    *)
(* periodic health-check callbacks and their probes; of                    *)
(* the NotificationManager of the same file: rules, de-duplication, the    *)
(* rate limit and delivery; and of the ObservabilityManager                *)
(* (observability.ts): logs, metrics, trace spans and alerts.              *)
(*                                                                         *)
(* Conventions.  Task ids are 1, 2, ... in order of generation.  A         *)
(* capability is an object: capObjs[i] is the i-th capability object ever  *)
(* created, `capabilities` is the Map's iteration order of object          *)
(* indices.  Opaque payloads (task.input, task.result, decision input and  *)
(* output) are left out; timestamps are modelled by whether they are set.  *)
(* successRate is kept in millionths and avgLatencyMs in thousandths of a  *)
(* millisecond, both truncated.                                            *)
(*                                                                         *)
(* Executors.  processTaskQueue starts executeTask, which runs the family  *)
(* executor up to its first suspension (ExecutorStart) and then awaits it. *)
(* The executor's promise settles later, either way: fulfilled (action     *)
(* executeTask: the rest of the try block and the finally block) or        *)
(* rejected (action handleTaskError: the finally block, then the .catch    *)
(* callback, which run in consecutive microtasks with no timer or I/O      *)
(* callback in between).                                                   *)
(*                                                                         *)
(* Time.  `now` is Date.now() on a small scale; it advances between        *)
(* handlers (clockAdvance) and inside monitorHealth, which reads it more   *)
(* than once.  One tick of the clock is 30 s.  Cooldown timers carry the   *)
(* time they are due and fire in the order they were armed; a              *)
(* specification with no clock lets them fire at any later moment,         *)
(* SpecCooldown lets them fire exactly when they are due.                  *)
(*                                                                         *)
(* History.  lastSettled, unannounced and the `before` field of a          *)
(* health-check callback record what has happened to an endpoint; no       *)
(* handler reads them.                                                     *)
(***************************************************************************)
EXTENDS Integers, Sequences, FiniteSets, TLC

VARIABLES
    config,             \* this.config
    capObjs,            \* every AgentCapability object created so far
    capabilities,       \* this.capabilities: object indices in Map order
    tasks,              \* every Task object created so far, by id
    taskQueue,          \* this.taskQueue: task ids
    activeTasks,        \* this.activeTasks: ids (keys of the Map)
    execCap,            \* capability object held by each in-flight executeTask
    decisions,          \* this.decisions
    isRunning,          \* this.isRunning
    processingInterval, \* the dispatch setInterval is armed
    emitted,            \* events emitted by the last handler, in order
    ret,                \* <<method, value>> returned by the last public call
    attempts,           \* per task: task_started count and re-queue counts
    registrations,      \* registerCapability calls so far
    now,                \* Date.now()
    healthIntervals,    \* health setIntervals armed by start (never cleared)
    cooldowns,          \* pending re-enable timers: capability object, due time
    autoOptions,        \* AutoConfigManager: this.options
    svcObjs,            \* every ServiceEndpoint object created so far
    services,           \* this.services: object indices in Map order
    autoDecisions,      \* this.decisions
    autoRunning,        \* this.isRunning
    healthCheckInterval,\* the setInterval this.healthCheckInterval names is armed
    leakedIntervals,    \* armed health-check setIntervals whose handle was overwritten
    starts,             \* start() calls in flight: the await each is suspended at
    cycles,             \* health-check callbacks in flight, oldest first
    healProbes,         \* endpoint objects probed by executed heal decisions
    forceChecks,        \* forceHealthCheck() calls in flight
    lastSettled,        \* history: per endpoint object, the last status a probe left
    unannounced,        \* history: endpoints gone from healthy to unhealthy, not yet notified
    autoEmitted,        \* events emitted by the manager's last handler
    messageBound,       \* NotificationManager: `message` resolves to `_message`
    notifyConfig,       \* this.config without its rules
    rules,              \* this.config.rules
    history,            \* this.history
    rateLimitBuckets,   \* this.rateLimitBuckets.get("global"), <<>> when absent
    recentHashes,       \* this.recentHashes
    hashTimers,         \* pending deduplication timers: hash and due time
    notifyEmitted,      \* events emitted by the notifier's last handler
    notifyRet,          \* <<method, value>> of the notifier's last call
    obsConfig,          \* ObservabilityManager: this.config
    lastId,             \* ids handed out by generateId so far
    metrics,            \* this.metrics
    logs,               \* this.logs
    spans,              \* this.spans: Span objects in Map order
    activeSpans,        \* this.activeSpans: span ids in Map order
    alerts,             \* this.alerts
    counters,           \* this.counters
    obsEmitted,         \* events emitted by the hub's last handler
    obsRet              \* <<method, value>> of the hub's last call

controllerVars ==
    <<config, capObjs, capabilities, tasks, taskQueue, activeTasks, execCap,
      decisions, isRunning, processingInterval, emitted, ret, attempts,
      registrations, healthIntervals, cooldowns>>

registryVars ==
    <<autoOptions, svcObjs, services, autoDecisions, autoRunning,
      healthCheckInterval, leakedIntervals, starts, cycles, healProbes,
      forceChecks, lastSettled, unannounced, autoEmitted>>

notifyVars ==
    <<messageBound, notifyConfig, rules, history, rateLimitBuckets,
      recentHashes, hashTimers, notifyEmitted, notifyRet>>

obsVars ==
    <<obsConfig, lastId, metrics, logs, spans, activeSpans, alerts, counters,
      obsEmitted, obsRet>>

hubVars == <<notifyVars, obsVars>>

vars == <<controllerVars, now, registryVars, hubVars>>

\* ------------------------------------------------------------ bounds ----
MaxTasks == 2
MaxRetries == 1
MaxConcurrent == 2
MaxRegistrations == 1
MaxDecisions == 4
MaxClock == 2
MaxCooldowns == 1
DecayRetries == 7
MaxEndpoints == 2
MaxCycles == 2
MaxHeals == 2
MaxNotifications == 2
MaxRules == 2
NotifyClock == 2
CooldownClock == 3
CooldownTimers == 2
CooldownTasks == 1
MaxSpans == 3
MaxMetrics == 3
MaxLogs == 2
MaxAlerts == 3

\* ------------------------------------------------------------- types ----
Undefined == "undefined"

OperationMode == {"supervised", "autonomous", "unrestricted"}

Priorities == {"low", "normal", "high", "critical"}

SRScale == 1000000

LatScale == 1000

priorityOrder(p) ==
    CASE p = "critical" -> 0
      [] p = "high"     -> 1
      [] p = "normal"   -> 2
      [] p = "low"      -> 3

typeMapping(taskType) ==
    CASE taskType = "voice"      -> {"personaplex"}
      [] taskType = "text"       -> {"agent-zero", "poke", "mcp-tool"}
      [] taskType = "code"       -> {"agent-zero"}
      [] taskType = "research"   -> {"poke", "agent-zero"}
      [] taskType = "autonomous" -> {"agent-zero"}
      [] taskType = "custom"     -> {"agent-zero", "mcp-tool", "custom"}
      [] OTHER                   -> {}

baseConfidence(type) ==
    CASE type = "route"      -> 90
      [] type = "scale"      -> 80
      [] type = "heal"       -> 85
      [] type = "optimize"   -> 75
      [] type = "restrict"   -> 70
      [] type = "unrestrict" -> 60

DEFAULT_CONFIG ==
    [mode               |-> "autonomous",
     selfHealing        |-> TRUE,
     intelligentRouting |-> TRUE,
     maxConcurrentTasks |-> 10,
     taskTimeoutMs      |-> 300000,
     maxRetries         |-> 3,
     contentFiltering   |-> FALSE,
     safetyGuardrails   |-> FALSE,
     verboseLogging     |-> TRUE]

\* { ...base, ...updates } for a Partial<ControllerConfig>
Merge(base, updates) ==
    [f \in DOMAIN base |-> IF f \in DOMAIN updates THEN updates[f] ELSE base[f]]

DefaultCapabilities ==
    << [id |-> "personaplex-voice", type |-> "personaplex", priority |-> 1,
        enabled |-> TRUE, maxConcurrent |-> 5, currentLoad |-> 0,
        successRate |-> SRScale, avgLatencyMs |-> 100 * LatScale],
       [id |-> "agent-zero-auto", type |-> "agent-zero", priority |-> 2,
        enabled |-> TRUE, maxConcurrent |-> 3, currentLoad |-> 0,
        successRate |-> SRScale, avgLatencyMs |-> 500 * LatScale],
       [id |-> "poke-research", type |-> "poke", priority |-> 3,
        enabled |-> TRUE, maxConcurrent |-> 5, currentLoad |-> 0,
        successRate |-> SRScale, avgLatencyMs |-> 1000 * LatScale] >>

\* --------------------------------------------------- inputs (bounded) ----
SubmitTypes == {"voice", "code"}

SubmitPriorities == {"critical", "low"}

\* options of submitTask: each of priority and maxRetries given or left out
SubmitOptions ==
    { <<>> }
    \cup { [priority |-> p, maxRetries |-> r] :
             p \in SubmitPriorities, r \in 0 .. MaxRetries }

LatencySamples == {0, 400}

CancelIds == (1 .. MaxTasks) \cup {0}

RegisterInputs ==
    { [id |-> "personaplex-voice", type |-> "personaplex", priority |-> 1,
       enabled |-> FALSE, maxConcurrent |-> 5, currentLoad |-> 0,
       successRate |-> SRScale, avgLatencyMs |-> 100 * LatScale],
      [id |-> "agent-zero-auto", type |-> "agent-zero", priority |-> 2,
       enabled |-> TRUE, maxConcurrent |-> 1, currentLoad |-> 0,
       successRate |-> SRScale, avgLatencyMs |-> 500 * LatScale] }

ConstructionOptions ==
    { [maxConcurrentTasks |-> n, maxRetries |-> MaxRetries] :
        n \in 1 .. MaxConcurrent }

ConcurrencyUpdates == { [maxConcurrentTasks |-> n] : n \in 1 .. MaxConcurrent }

ModeOptions ==
    { [mode |-> m] : m \in OperationMode }
    \cup { [contentFiltering |-> b] : b \in BOOLEAN }
    \cup { [safetyGuardrails |-> b] : b \in BOOLEAN }
    \cup { [mode |-> m, contentFiltering |-> b, safetyGuardrails |-> c] :
             m \in OperationMode, b \in BOOLEAN, c \in BOOLEAN }

\* ------------------------------------------------------------ helpers ----
Ev(name, payload) == <<name, payload>>

\* this.log(message): always emits "log"
log == << Ev("log", Undefined) >>

SeqToSet(s) == { s[i] : i \in 1 .. Len(s) }

InsertAt(s, i, x) == SubSeq(s, 1, i - 1) \o <<x>> \o SubSeq(s, i, Len(s))

\* Array.prototype.findIndex, given the test's result on each element: the
\* first index that satisfies the test, 0 for -1
FindIndex(hits) ==
    IF \E i \in 1 .. Len(hits) : hits[i]
    THEN CHOOSE i \in 1 .. Len(hits) :
            hits[i] /\ \A j \in 1 .. (i - 1) : ~hits[j]
    ELSE 0

insertTaskByPriority(queue, t, tk) ==
    LET insertIndex == FindIndex([i \in 1 .. Len(queue) |->
            priorityOrder(tk[queue[i]].priority) > priorityOrder(tk[t].priority)])
    IN  IF insertIndex = 0 THEN Append(queue, t)
        ELSE InsertAt(queue, insertIndex, t)

\* mutant: every decision is marked executed
Decision_AlwaysExecuted(type, reason, mode) ==
    [type             |-> type,
     reason           |-> reason,
     confidence       |-> baseConfidence(type),
     executed         |-> TRUE,
     requiresApproval |-> mode = "supervised"]

\* makeDecision: the record pushed on this.decisions
Decision(type, reason, mode) ==
    [type             |-> type,
     reason           |-> reason,
     confidence       |-> baseConfidence(type),
     executed         |-> mode # "supervised",
     requiresApproval |-> mode = "supervised"]

\* makeDecision: the events it emits
DecisionEvents(type) ==
    << Ev("decision", type) >> \o (IF config.verboseLogging THEN log ELSE <<>>)

\* the id of the task found, 0 for undefined
getTask(taskId) ==
    IF taskId \in activeTasks THEN taskId
    ELSE IF taskId \in SeqToSet(taskQueue) THEN taskId
    ELSE 0

\* Array.prototype.slice(start): a negative start counts from the end, and
\* -0 is 0
slice(array, start) ==
    LET from == IF start < 0
                THEN (IF Len(array) + start < 0 THEN 0 ELSE Len(array) + start)
                ELSE (IF start > Len(array) THEN Len(array) ELSE start)
    IN  SubSeq(array, from + 1, Len(array))

\* ------------------------------------------------------------- router ----
matchesTaskType(cap, task) == cap.type \in typeMapping(task.type)

\* mutant: the router sorts by priority alone
Score_PriorityOnly(cap) == cap.priority * 10 * SRScale

\* priority*10 + successRate*5 - avgLatencyMs/1000 - currentLoad, in millionths
Score(cap) ==
    cap.priority * 10 * SRScale + cap.successRate * 5
        - cap.avgLatencyMs - cap.currentLoad * SRScale

\* mutant: the router forgets the enabled flag
HasCapacity_IgnoresEnabled(cap) == cap.currentLoad < cap.maxConcurrent

\* mutant: the router forgets the load
HasCapacity_IgnoresLoad(cap) == cap.enabled

HasCapacity(cap) == cap.enabled /\ cap.currentLoad < cap.maxConcurrent

\* Array.prototype.sort with (a, b) => scoreB - scoreA: stable, descending
RECURSIVE SortByScore(_)
SortByScore(s) ==
    IF s = <<>> THEN <<>>
    ELSE LET x    == Head(s)
             rest == SortByScore(Tail(s))
             at   == FindIndex([i \in 1 .. Len(rest) |->
                         Score(capObjs[rest[i]]) <= Score(capObjs[x])])
         IN  IF at = 0 THEN Append(rest, x) ELSE InsertAt(rest, at, x)

Candidates(t) ==
    LET Free(c)    == HasCapacity(capObjs[c])
        Matches(c) == matchesTaskType(capObjs[c], tasks[t])
    IN  SortByScore(SelectSeq(SelectSeq(capabilities, Free), Matches))

\* the object index returned by selectCapability, 0 for undefined
selectCapability(t) ==
    IF Candidates(t) = <<>> THEN 0 ELSE Candidates(t)[1]

\* mutant: a single candidate is enough for a route decision
RoutesIntelligently_AnyCandidate(t) ==
    config.intelligentRouting /\ Len(Candidates(t)) > 0

\* selectCapability logs a route decision
RoutesIntelligently(t) ==
    config.intelligentRouting /\ Len(Candidates(t)) > 1

\* candidates.map((c) => c.id)
CandidateIds(t) == [i \in 1 .. Len(Candidates(t)) |-> capObjs[Candidates(t)[i]].id]

\* the route decision of selectCapability: input.candidates and
\* output.selected are kept, the task's id and type are left out
RouteDecision(t) ==
    [candidates |-> CandidateIds(t), selected |-> CandidateIds(t)[1]]
        @@ Decision("route", "Selected capability for task", config.mode)

\* --------------------------------------------------------------- init ----
DEFAULT_OPTIONS ==
    [autonomousMode      |-> TRUE,
     unrestrictedMode    |-> FALSE,
     autoDiscover        |-> TRUE,
     autoConnect         |-> TRUE,
     autoHeal            |-> TRUE,
     notificationWebhook |-> FALSE]

\* new AutoConfigManager(options)
InitAutoConfig(options) ==
    /\ autoOptions = Merge(DEFAULT_OPTIONS, options)
    /\ svcObjs = <<>>
    /\ services = <<>>
    /\ autoDecisions = <<>>
    /\ autoRunning = FALSE
    /\ healthCheckInterval = FALSE
    /\ leakedIntervals = 0
    /\ starts = <<>>
    /\ cycles = <<>>
    /\ healProbes = <<>>
    /\ forceChecks = <<>>
    /\ lastSettled = <<>>
    /\ unannounced = {}
    /\ autoEmitted = <<>>

\* new AutonomousController(options)
InitController(options) ==
    /\ config = Merge(DEFAULT_CONFIG, options)
    /\ capObjs = DefaultCapabilities
    /\ capabilities = <<1, 2, 3>>
    /\ tasks = <<>>
    /\ taskQueue = <<>>
    /\ activeTasks = {}
    /\ execCap = <<>>
    /\ decisions = <<>>
    /\ isRunning = FALSE
    /\ processingInterval = FALSE
    /\ emitted = <<>>
    /\ ret = <<>>
    /\ attempts = <<>>
    /\ registrations = 0
    /\ now = 0
    /\ healthIntervals = 0
    /\ cooldowns = <<>>

\* 60000 ms on the notifier's clock, which ticks every 30 s
windowMs == 2

\* emoji are left out of the titles
DEFAULT_RULES ==
    << [id |-> "service-down", eventPatterns |-> <<"service.down", "service.unhealthy">>,
        channels |-> <<"telegram", "discord", "console">>, minPriority |-> "high",
        rateLimit |-> <<>>,
        template |-> << [title |-> << <<"lit", "Service Down">> >>,
                         body  |-> << <<"lit", "Service ">>, <<"key", "service">>, <<"lit", " is down. URL: ">>, <<"key", "url">> >>] >>,
        enabled |-> TRUE],
       [id |-> "service-recovered", eventPatterns |-> <<"service.recovered", "service.healed">>,
        channels |-> <<"telegram", "console">>, minPriority |-> "normal",
        rateLimit |-> <<>>,
        template |-> << [title |-> << <<"lit", "Service Recovered">> >>,
                         body  |-> << <<"lit", "Service ">>, <<"key", "service">>, <<"lit", " is back online.">> >>] >>,
        enabled |-> TRUE],
       [id |-> "autonomous-decision", eventPatterns |-> <<"decision.*">>,
        channels |-> <<"console">>, minPriority |-> "normal",
        rateLimit |-> <<>>,
        template |-> << [title |-> << <<"lit", "Autonomous Decision">> >>,
                         body  |-> << <<"key", "type">>, <<"lit", ": ">>, <<"key", "reason">> >>] >>,
        enabled |-> TRUE],
       [id |-> "critical-errors", eventPatterns |-> <<"error.critical", "error.fatal">>,
        channels |-> <<"telegram", "discord", "slack">>, minPriority |-> "urgent",
        rateLimit |-> <<5>>,
        template |-> << [title |-> << <<"lit", "Critical Error">> >>,
                         body  |-> << <<"key", "message">>, <<"lit", "\n\nComponent: ">>, <<"key", "component">> >>] >>,
        enabled |-> TRUE],
       [id |-> "new-user", eventPatterns |-> <<"user.onboarded", "poke.greeting">>,
        channels |-> <<"telegram", "console">>, minPriority |-> "low",
        rateLimit |-> <<>>,
        template |-> << [title |-> << <<"lit", "New User">> >>,
                         body  |-> << <<"key", "username">>, <<"lit", " has been onboarded.\n\nProfile: ">>, <<"key", "profile">> >>] >>,
        enabled |-> TRUE],
       [id |-> "agent-task-complete", eventPatterns |-> <<"agent.task.complete">>,
        channels |-> <<"console">>, minPriority |-> "low",
        rateLimit |-> <<>>,
        template |-> << [title |-> << <<"lit", "Task Complete">> >>,
                         body  |-> << <<"lit", "Agent completed: ">>, <<"key", "task">>, <<"lit", "\n\nResult: ">>, <<"key", "result">> >>] >>,
        enabled |-> TRUE] >>

NOTIFY_DEFAULTS ==
    [rules                    |-> DEFAULT_RULES,
     defaultChannels          |-> <<"console">>,
     rateLimitEnabled         |-> TRUE,
     globalRateLimitPerMinute |-> 60,
     deduplicationWindowMs    |-> windowMs]

\* new NotificationManager(config)
InitNotifier(options, resolves) ==
    /\ messageBound = resolves
    /\ notifyConfig = [f \in (DOMAIN NOTIFY_DEFAULTS) \ {"rules"} |->
                          Merge(NOTIFY_DEFAULTS, options)[f]]
    /\ rules = Merge(NOTIFY_DEFAULTS, options).rules
    /\ history = <<>>
    /\ rateLimitBuckets = <<>>
    /\ recentHashes = {}
    /\ hashTimers = <<>>
    /\ notifyEmitted = <<>>
    /\ notifyRet = <<>>

OBS_DEFAULT_CONFIG ==
    [debugMode             |-> FALSE,
     metricsRetentionHours |-> 24,
     logRetentionCount     |-> 10000,
     anomalyDetection      |-> TRUE,
     latencyMs             |-> 5000]

\* new ObservabilityManager(config)
InitObservability(options) ==
    /\ obsConfig = Merge(OBS_DEFAULT_CONFIG, options)
    /\ lastId = 0
    /\ metrics = <<>>
    /\ logs = <<>>
    /\ spans = <<>>
    /\ activeSpans = <<>>
    /\ alerts = <<>>
    /\ counters = <<>>
    /\ obsEmitted = <<>>
    /\ obsRet = <<>>

\* the notifications singleton, built from the file as it is written, and
\* the observability singleton
InitHub ==
    /\ InitNotifier(<<>>, FALSE)
    /\ InitObservability(<<>>)

InitWith(options) ==
    /\ InitController(options)
    /\ InitAutoConfig(<<>>)
    /\ InitHub

Init == \E options \in ConstructionOptions : InitWith(options)

InitMode == \E options \in ModeOptions : InitWith(options)

\* ---------------------------------------------------------- lifecycle ----
start ==
    /\ ~isRunning
    /\ isRunning' = TRUE
    /\ processingInterval' = TRUE
    /\ emitted' = log \o << Ev("started", Undefined) >>
    /\ ret' = <<>>
    /\ UNCHANGED <<config, capObjs, capabilities, tasks, taskQueue, activeTasks,
                   execCap, decisions, attempts, registrations>>
    /\ healthIntervals' = healthIntervals + 1
    /\ UNCHANGED <<now, cooldowns>>
    /\ UNCHANGED registryVars
    /\ UNCHANGED hubVars

stop ==
    /\ isRunning' = FALSE
    /\ processingInterval' = FALSE
    /\ emitted' = << Ev("stopped", Undefined) >>
    /\ ret' = <<>>
    /\ UNCHANGED <<config, capObjs, capabilities, tasks, taskQueue, activeTasks,
                   execCap, decisions, attempts, registrations>>
    /\ UNCHANGED <<now, healthIntervals, cooldowns>>
    /\ UNCHANGED registryVars
    /\ UNCHANGED hubVars

\* ------------------------------------------------------- mode control ----
\* mutant: every mode but supervised clears the flags
ModeFlags_AutonomousClears(mode, flag) == mode = "supervised"

ModeFlags(mode, flag) ==
    IF mode = "unrestricted" THEN FALSE
    ELSE IF mode = "supervised" THEN TRUE
    ELSE flag

setMode(mode) ==
    LET previousMode == config.mode
        cfg == [config EXCEPT !.mode = mode,
                   !.contentFiltering = ModeFlags(mode, @),
                   !.safetyGuardrails = ModeFlags(mode, @)]
    IN  /\ config' = cfg
        \* makeDecision runs after this.config.mode is assigned
        /\ decisions' = Append(decisions, Decision("route", "Mode changed", mode))
        /\ emitted' = (IF mode = "unrestricted" THEN log ELSE <<>>)
               \o DecisionEvents("route")
               \o << Ev("mode_changed", <<previousMode, mode>>) >>
        /\ ret' = <<>>
        /\ UNCHANGED <<capObjs, capabilities, tasks, taskQueue, activeTasks,
                       execCap, isRunning, processingInterval, attempts,
                       registrations>>
        /\ UNCHANGED <<now, healthIntervals, cooldowns>>
        /\ UNCHANGED registryVars
        /\ UNCHANGED hubVars

enableUnrestrictedMode == setMode("unrestricted")

disableGuardrails ==
    /\ config' = [config EXCEPT !.contentFiltering = FALSE,
                                !.safetyGuardrails = FALSE]
    /\ emitted' = log \o << Ev("guardrails_disabled", Undefined) >>
    /\ ret' = <<>>
    /\ UNCHANGED <<capObjs, capabilities, tasks, taskQueue, activeTasks, execCap,
                   decisions, isRunning, processingInterval, attempts,
                   registrations>>
    /\ UNCHANGED <<now, healthIntervals, cooldowns>>
    /\ UNCHANGED registryVars
    /\ UNCHANGED hubVars

updateConfig(updates) ==
    /\ config' = Merge(config, updates)
    /\ emitted' = << Ev("config_updated", Undefined) >>
    /\ ret' = <<>>
    /\ UNCHANGED <<capObjs, capabilities, tasks, taskQueue, activeTasks, execCap,
                   decisions, isRunning, processingInterval, attempts,
                   registrations>>
    /\ UNCHANGED <<now, healthIntervals, cooldowns>>
    /\ UNCHANGED registryVars
    /\ UNCHANGED hubVars

\* ---------------------------------------------------- task management ----
blockedPatterns == {}

shouldFilterContent(input) ==
    IF config.mode = "unrestricted" \/ ~config.contentFiltering THEN FALSE
    ELSE \E pattern \in blockedPatterns : pattern = input

NewTask(id, type, options) ==
    [id          |-> id,
     type        |-> type,
     priority    |-> IF "priority" \in DOMAIN options THEN options.priority
                     ELSE "normal",
     status      |-> "queued",
     createdAt   |-> now,
     assignedTo  |-> Undefined,
     startedAt   |-> FALSE,
     completedAt |-> FALSE,
     error       |-> Undefined,
     retryCount  |-> 0,
     maxRetries  |-> IF "maxRetries" \in DOMAIN options THEN options.maxRetries
                     ELSE config.maxRetries]

NoAttempts == [started |-> 0, retried |-> 0, requeued |-> 0]

\* mutant: the bypass looks at the flag only
FilterBypassed_IgnoresMode == ~config.contentFiltering

\* submitTask's first test: the submission skips the content filter
FilterBypassed == ~config.contentFiltering \/ config.mode = "unrestricted"

submitTask(type, input, options) ==
    LET id   == Len(tasks) + 1
        task == NewTask(id, type, options)
        filtered == ~FilterBypassed /\ shouldFilterContent(input)
    IN  /\ attempts' = Append(attempts, NoAttempts)
        /\ ret' = <<"submitTask", id>>
        /\ IF filtered
           THEN /\ tasks' = Append(tasks, [task EXCEPT !.status = "cancelled",
                               !.error = "Content filtered by guardrails"])
                /\ emitted' = << Ev("task_filtered", id) >>
                /\ UNCHANGED taskQueue
           ELSE /\ tasks' = Append(tasks, task)
                /\ taskQueue' = insertTaskByPriority(taskQueue, id, tasks')
                /\ emitted' =
                     (IF FilterBypassed THEN log ELSE <<>>)
                        \o << Ev("task_queued", id) >>
        /\ UNCHANGED <<config, capObjs, capabilities, activeTasks, execCap,
                       decisions, isRunning, processingInterval, registrations>>
        /\ UNCHANGED <<now, healthIntervals, cooldowns>>
        /\ UNCHANGED registryVars
        /\ UNCHANGED hubVars

Cancellable(status) == status # "completed" /\ status # "failed"

cancelTask(taskId) ==
    LET task == getTask(taskId)
    IN  /\ IF task # 0 /\ Cancellable(tasks[task].status)
           THEN /\ tasks' = [tasks EXCEPT ![task].status = "cancelled"]
                /\ emitted' = << Ev("task_cancelled", task) >>
                /\ ret' = <<"cancelTask", TRUE>>
           ELSE /\ UNCHANGED tasks
                /\ emitted' = <<>>
                /\ ret' = <<"cancelTask", FALSE>>
        /\ UNCHANGED <<config, capObjs, capabilities, taskQueue, activeTasks,
                       execCap, decisions, isRunning, processingInterval,
                       attempts, registrations>>
        /\ UNCHANGED <<now, healthIntervals, cooldowns>>
        /\ UNCHANGED registryVars
        /\ UNCHANGED hubVars

\* Map.set: an existing id keeps its place and gets the new object
registerCapability(capability) ==
    LET obj == Len(capObjs) + 1
        at  == FindIndex([i \in 1 .. Len(capabilities) |->
                   capObjs[capabilities[i]].id = capability.id])
    IN  /\ capObjs' = Append(capObjs, capability)
        /\ capabilities' = IF at = 0 THEN Append(capabilities, obj)
                           ELSE [capabilities EXCEPT ![at] = obj]
        /\ registrations' = registrations + 1
        /\ emitted' = << Ev("capability_registered", capability.id) >>
        /\ ret' = <<>>
        /\ UNCHANGED <<config, tasks, taskQueue, activeTasks, execCap, decisions,
                       isRunning, processingInterval, attempts>>
        /\ UNCHANGED <<now, healthIntervals, cooldowns>>
        /\ UNCHANGED registryVars
        /\ UNCHANGED hubVars

\* ---------------------------------------------------- task processing ----
\* mutant: the cap test is off by one
ActiveFull_OffByOne == Cardinality(activeTasks) > config.maxConcurrentTasks

ActiveFull == Cardinality(activeTasks) >= config.maxConcurrentTasks

\* mutant: one retry too many
CanRetry_Inclusive(task) == task.retryCount <= task.maxRetries

CanRetry(task) == task.retryCount < task.maxRetries

\* what the family executor does before its first suspension
ExecutorStart(capType, mode) ==
    CASE capType = "personaplex" ->
            [events |-> << Ev("voice_task", Undefined) >>, decisions |-> <<>>]
      [] capType = "agent-zero" ->
            [events    |-> DecisionEvents("route")
                             \o << Ev("autonomous_task", Undefined) >>,
             decisions |-> << Decision("route", "Autonomous task routing", mode) >>]
      [] capType = "poke" ->
            [events |-> << Ev("research_task", Undefined) >>, decisions |-> <<>>]
      [] capType = "mcp-tool" ->
            [events |-> << Ev("mcp_task", Undefined) >>, decisions |-> <<>>]
      [] OTHER ->
            [events |-> << Ev("generic_task", Undefined) >>, decisions |-> <<>>]

\* mutant: the tick reads the head of the queue and leaves it there
shift_Peeks(queue) == queue

\* Array.prototype.shift: what is left of the queue
shift(queue) == Tail(queue)

\* one tick of the dispatch setInterval
processTaskQueue ==
    /\ processingInterval
    /\ ret' = <<>>
    /\ IF ActiveFull \/ taskQueue = <<>>
       THEN /\ emitted' = <<>>
            /\ UNCHANGED <<tasks, taskQueue, activeTasks, execCap, capObjs,
                           decisions, attempts>>
       ELSE LET t     == Head(taskQueue)
                cap   == selectCapability(t)
                route == IF RoutesIntelligently(t)
                         THEN [events    |-> DecisionEvents("route"),
                               decisions |-> << RouteDecision(t) >>]
                         ELSE [events |-> <<>>, decisions |-> <<>>]
            IN  IF cap = 0
                THEN /\ decisions' = decisions \o route.decisions
                     /\ UNCHANGED <<activeTasks, execCap, capObjs>>
                     /\ IF CanRetry(tasks[t])
                        THEN /\ tasks' = [tasks EXCEPT ![t].retryCount = @ + 1]
                             /\ taskQueue' = Append(shift(taskQueue), t)
                             /\ attempts' = [attempts EXCEPT ![t].requeued = @ + 1]
                             /\ emitted' = route.events
                        ELSE /\ tasks' = [tasks EXCEPT ![t].status = "failed",
                                   ![t].error = "No capable agent available"]
                             /\ taskQueue' = shift(taskQueue)
                             /\ emitted' = route.events \o << Ev("task_failed", t) >>
                             /\ UNCHANGED attempts
                ELSE LET exec == ExecutorStart(capObjs[cap].type, config.mode)
                     IN  /\ tasks' = [tasks EXCEPT ![t].assignedTo = capObjs[cap].id,
                                          ![t].status = "running",
                                          ![t].startedAt = TRUE]
                         /\ taskQueue' = shift(taskQueue)
                         /\ activeTasks' = activeTasks \cup {t}
                         /\ execCap' = (t :> cap) @@ execCap
                         /\ capObjs' = [capObjs EXCEPT ![cap].currentLoad = @ + 1]
                         /\ attempts' = [attempts EXCEPT ![t].started = @ + 1]
                         /\ decisions' = decisions \o route.decisions \o exec.decisions
                         /\ emitted' = route.events \o << Ev("task_started", t) >>
                                          \o log \o exec.events
    /\ UNCHANGED <<config, capabilities, isRunning, processingInterval,
                   registrations>>
    /\ UNCHANGED <<now, healthIntervals, cooldowns>>
    /\ UNCHANGED registryVars
    /\ UNCHANGED hubVars

Without(f, t) == [x \in (DOMAIN f) \ {t} |-> f[x]]

\* executeTask after the executor's promise is fulfilled
executeTask(t, latency) ==
    LET cap == execCap[t]
    IN  /\ t \in activeTasks
        /\ tasks' = [tasks EXCEPT ![t].status = "completed",
                                  ![t].completedAt = TRUE]
        /\ capObjs' = [capObjs EXCEPT
               ![cap].avgLatencyMs = (@ + latency * LatScale) \div 2,
               ![cap].successRate = (@ * 9) \div 10 + SRScale \div 10,
               ![cap].currentLoad = @ - 1]
        /\ activeTasks' = activeTasks \ {t}
        /\ execCap' = Without(execCap, t)
        /\ emitted' = << Ev("task_completed", t) >> \o log
        /\ ret' = <<>>
        /\ UNCHANGED <<config, capabilities, taskQueue, decisions, isRunning,
                       processingInterval, attempts, registrations>>
        /\ UNCHANGED <<now, healthIntervals, cooldowns>>
        /\ UNCHANGED registryVars
        /\ UNCHANGED hubVars

\* currentLoad after the executor's promise is rejected: the finally block
\* of executeTask, then handleTaskError
LoadAfterError(load) == (load - 1) - 1

\* executeTask's finally block and handleTaskError, run back to back when the
\* executor's promise is rejected
handleTaskError(t) ==
    LET cap == execCap[t]
    IN  /\ t \in activeTasks
        /\ capObjs' = [capObjs EXCEPT
               ![cap].currentLoad = LoadAfterError(@),
               ![cap].successRate = (@ * 9) \div 10]
        /\ activeTasks' = activeTasks \ {t}
        /\ execCap' = Without(execCap, t)
        /\ ret' = <<>>
        /\ IF CanRetry(tasks[t])
           THEN /\ tasks' = [tasks EXCEPT ![t].retryCount = @ + 1,
                                          ![t].status = "queued"]
                /\ taskQueue' = insertTaskByPriority(taskQueue, t, tasks')
                /\ attempts' = [attempts EXCEPT ![t].retried = @ + 1]
                /\ decisions' = decisions \o
                     (IF config.selfHealing
                      THEN << Decision("heal",
                                "Task retry with different capability", config.mode) >>
                      ELSE <<>>)
                /\ emitted' = log \o
                     (IF config.selfHealing THEN DecisionEvents("heal") ELSE <<>>)
           ELSE /\ tasks' = [tasks EXCEPT ![t].status = "failed",
                                          ![t].completedAt = TRUE,
                                          ![t].error = "executor error"]
                /\ emitted' = << Ev("task_failed", t) >> \o log
                /\ UNCHANGED <<taskQueue, attempts, decisions>>
        /\ UNCHANGED <<config, capabilities, isRunning, processingInterval,
                       registrations>>
        /\ UNCHANGED <<now, healthIntervals, cooldowns>>
        /\ UNCHANGED registryVars
        /\ UNCHANGED hubVars

\* ------------------------------------------------------- decision log ----
\* getDecisions(limit): this.decisions.slice(-limit)
getDecisions(limit) ==
    /\ ret' = <<"getDecisions", slice(decisions, 0 - limit)>>
    /\ emitted' = <<>>
    /\ UNCHANGED <<config, capObjs, capabilities, tasks, taskQueue, activeTasks,
                   execCap, decisions, isRunning, processingInterval, attempts,
                   registrations>>
    /\ UNCHANGED <<now, healthIntervals, cooldowns>>
    /\ UNCHANGED registryVars
    /\ UNCHANGED hubVars

\* ---------------------------------------------------- health monitoring ----
\* time passes between handlers
clockAdvance ==
    /\ now' = now + 1
    /\ UNCHANGED <<config, capObjs, capabilities, tasks, taskQueue, activeTasks,
                   execCap, decisions, isRunning, processingInterval, emitted,
                   ret, attempts, registrations, healthIntervals, cooldowns>>
    /\ UNCHANGED registryVars
    /\ UNCHANGED hubVars

\* mutant: the threshold is 0.25
Underperforming_Quarter(cap) == cap.successRate * 4 < SRScale

\* setTimeout(..., 60000): the re-enable delay, in clock ticks of 30 s
CooldownMs == 2

\* the oldest pending re-enable timer has reached its time
TimerDue == cooldowns # <<>> /\ Head(cooldowns).due <= now

\* no pending re-enable timer has reached its time: timers fire on time, so
\* the clock moves on only then
NoTimerDue == \A k \in 1 .. Len(cooldowns) : cooldowns[k].due > now

\* capability.successRate < 0.5
Underperforming(cap) == cap.successRate * 2 < SRScale

\* mutant: the age test allows one tick more
Stale_Late(task, at) == at - task.createdAt > config.taskTimeoutMs + 1

\* Date.now() - t.createdAt > this.config.taskTimeoutMs, Date.now() being at
Stale(task, at) == at - task.createdAt > config.taskTimeoutMs

\* events.length copies of events, one after the other
RECURSIVE Flatten(_)
Flatten(seqs) ==
    IF seqs = <<>> THEN <<>> ELSE Head(seqs) \o Flatten(Tail(seqs))

\* one tick of the health setInterval.  Date.now() is read again for every
\* element of both filters: drift is what the clock advanced between the
\* scan for stale tasks and the filter that rebuilds the queue.
monitorHealth(drift) ==
    LET Poor(c)    == Underperforming(capObjs[c])
        disabled   == IF config.selfHealing THEN SelectSeq(capabilities, Poor)
                      ELSE <<>>
        IsStale(t) == Stale(tasks[t], now)
        Fresh(t)   == ~Stale(tasks[t], now + drift)
        staleTasks == SelectSeq(taskQueue, IsStale)
    IN  /\ healthIntervals > 0
        /\ capObjs' = [c \in DOMAIN capObjs |->
               IF c \in SeqToSet(disabled)
               THEN [capObjs[c] EXCEPT !.enabled = FALSE] ELSE capObjs[c]]
        /\ decisions' = decisions \o [i \in 1 .. Len(disabled) |->
               Decision("heal", "Disabled underperforming capability", config.mode)]
        /\ cooldowns' = cooldowns \o [i \in 1 .. Len(disabled) |->
               [cap |-> disabled[i], due |-> now + CooldownMs]]
        /\ tasks' = [t \in DOMAIN tasks |->
               IF t \in SeqToSet(staleTasks)
               THEN [tasks[t] EXCEPT !.status = "failed",
                                     !.error = "Task timeout in queue"]
               ELSE tasks[t]]
        /\ taskQueue' = SelectSeq(taskQueue, Fresh)
        /\ now' = now + drift
        /\ emitted' = Flatten([i \in 1 .. Len(disabled) |-> DecisionEvents("heal")])
               \o [i \in 1 .. Len(staleTasks) |-> Ev("task_timeout", staleTasks[i])]
               \o << Ev("health_check", Undefined) >>
        /\ ret' = <<>>
        /\ UNCHANGED <<config, capabilities, activeTasks, execCap, isRunning,
                       processingInterval, attempts, registrations,
                       healthIntervals>>
        /\ UNCHANGED registryVars
        /\ UNCHANGED hubVars

\* the setTimeout callback armed by monitorHealth; timers of equal delay fire
\* in the order they were armed
\* the callback of the oldest pending re-enable timer.  All timers carry
\* the same delay, so they fire in the order they were armed; the time at
\* which the head fires is the scheduler's (see TimerDue), not the callback's.
cooldownTimeout ==
    /\ cooldowns # <<>>
    /\ capObjs' = [capObjs EXCEPT ![Head(cooldowns).cap].enabled = TRUE,
                                  ![Head(cooldowns).cap].successRate = (SRScale * 7) \div 10]
    /\ cooldowns' = Tail(cooldowns)
    /\ emitted' = <<>>
    /\ ret' = <<>>
    /\ UNCHANGED <<config, capabilities, tasks, taskQueue, activeTasks, execCap,
                   decisions, isRunning, processingInterval, attempts,
                   registrations, now, healthIntervals>>
    /\ UNCHANGED registryVars
    /\ UNCHANGED hubVars

\* ---------------------------------------------------- service registry ----
\* AutoConfigManager (auto-config.ts).  An endpoint is an object: svcObjs[i]
\* is the i-th ServiceEndpoint object ever created, `services` the Map's
\* iteration order of object indices.  lastCheck is <<>> for undefined and
\* <<t>> for the timestamp t; latencyMs and the log payloads are left out.
\* A probe (probeEndpoint) is an HTTP request that settles later as alive or
\* not; it never rejects.
ConfigEvent(type, s) == Ev("config_event", <<type, s>>)

Notification(objs, s) ==
    Ev("notification", <<"service_down", s, objs[s].name, objs[s].url>>)

RemoveAt(s, i) == SubSeq(s, 1, i - 1) \o SubSeq(s, i + 1, Len(s))

\* mutant: the fields supplied by the caller win over the reset
Endpoint_KeepsSupplied(service) ==
    [id        |-> service.id,
     name      |-> service.name,
     url       |-> service.url,
     status    |-> IF "status" \in DOMAIN service THEN service.status
                   ELSE "unknown",
     lastCheck |-> IF "lastCheck" \in DOMAIN service THEN service.lastCheck
                   ELSE <<>>]

\* { ...service, status: "unknown", lastCheck: undefined }
Endpoint(service) ==
    [id        |-> service.id,
     name      |-> service.name,
     url       |-> service.url,
     status    |-> "unknown",
     lastCheck |-> <<>>]

\* start() with an empty environment and discovery and auto-connect switched
\* off: phase 1 finds nothing, phases 2 and 3 are skipped, phase 4 arms the
\* health-check interval
registryStart ==
    /\ ~autoRunning
    /\ ~autoOptions.autoDiscover
    /\ ~autoOptions.autoConnect
    /\ autoRunning' = TRUE
    /\ healthCheckInterval' = TRUE
    /\ autoEmitted' = log \o log \o << Ev("started", Undefined) >>
    /\ UNCHANGED <<autoOptions, svcObjs, services, autoDecisions, cycles,
                   healProbes, lastSettled, unannounced>>
    /\ UNCHANGED <<controllerVars, now>>
    /\ UNCHANGED <<leakedIntervals, starts, forceChecks>>
    /\ UNCHANGED hubVars

\* Map.set: an existing id keeps its place and gets the new object
registerService(service) ==
    LET obj == Len(svcObjs) + 1
        at  == FindIndex([i \in 1 .. Len(services) |->
                   svcObjs[services[i]].id = service.id])
    IN  /\ svcObjs' = Append(svcObjs, Endpoint(service))
        /\ lastSettled' = Append(lastSettled, "unknown")
        /\ UNCHANGED unannounced
        /\ services' = IF at = 0 THEN Append(services, obj)
                       ELSE [services EXCEPT ![at] = obj]
        /\ autoEmitted' = << ConfigEvent("config_changed", obj) >>
        /\ UNCHANGED <<autoOptions, autoDecisions, autoRunning,
                       healthCheckInterval, cycles, healProbes>>
        /\ UNCHANGED <<controllerVars, now>>
        /\ UNCHANGED <<leakedIntervals, starts, forceChecks>>
        /\ UNCHANGED hubVars

\* connectService up to its await: the endpoint is marked checking
BeginProbe(objs, s) == [objs EXCEPT ![s].status = "checking"]

\* mutant: a failed probe leaves the endpoint as it was
ConnectTail_FailureIgnored(objs, s, alive) ==
    [objs   |-> IF alive
                THEN [objs EXCEPT ![s].status = "healthy", ![s].lastCheck = <<now>>]
                ELSE objs,
     events |-> IF alive THEN << ConfigEvent("connected", s) >> \o log ELSE <<>>]

\* connectService after its await
ConnectTail(objs, s, alive) ==
    [objs   |-> [objs EXCEPT ![s].status = IF alive THEN "healthy" ELSE "unhealthy",
                             ![s].lastCheck = <<now>>],
     events |-> IF alive THEN << ConfigEvent("connected", s) >> \o log ELSE <<>>]

\* history kept beside the endpoints: a probe of s has settled with status
\* `to` and the handler emitted `events`.  s is dropped when a service-down
\* notification for it is among the events, and added when its settled
\* status went from healthy to unhealthy without one.
Announced(s, to, events) ==
    IF \E k \in 1 .. Len(events) :
           events[k][1] = "notification" /\ events[k][2][2] = s
    THEN unannounced \ {s}
    ELSE IF lastSettled[s] = "healthy" /\ to = "unhealthy"
    THEN unannounced \cup {s}
    ELSE unannounced

\* mutant: the test for a service that went down expects it healthy
WentDown_StillHealthy(wasHealthy, status) == wasHealthy /\ status = "healthy"

\* wasHealthy && service.status !== "healthy"
WentDown(wasHealthy, status) == wasHealthy /\ status # "healthy"

\* !wasHealthy && service.status === "healthy" && this.options.autoHeal
Recovered(wasHealthy, status) ==
    ~wasHealthy /\ status = "healthy" /\ autoOptions.autoHeal

\* the health-check loop moves to the Map entry after position pos: it
\* notes wasHealthy and starts the probe of that endpoint, or ends.  `before`
\* is history: the status the last settled probe of the endpoint left
NextService(objs, pos) ==
    IF pos < Len(services)
    THEN LET s == services[pos + 1]
         IN  [objs  |-> BeginProbe(objs, s),
              cycle |-> << [pos |-> pos + 1, svc |-> s, pc |-> "probing",
                            wasHealthy |-> objs[s].status = "healthy",
                            before |-> lastSettled[s]] >>]
    ELSE [objs |-> objs, cycle |-> <<>>]

\* callback i goes on with its next endpoint, or has ended
Continue(running, i, cycle) ==
    IF cycle = <<>> THEN RemoveAt(running, i)
    ELSE [running EXCEPT ![i] = cycle[1]]

\* one tick of an armed health-check setInterval: a new callback starts
healthCheckTick ==
    LET first == NextService(svcObjs, 0)
    IN  /\ healthCheckInterval \/ leakedIntervals > 0
        /\ svcObjs' = first.objs
        /\ cycles' = cycles \o first.cycle
        /\ autoEmitted' = <<>>
        /\ UNCHANGED unannounced
        /\ UNCHANGED <<autoOptions, services, autoDecisions, autoRunning,
                       healthCheckInterval, healProbes, lastSettled>>
        /\ UNCHANGED <<controllerVars, now>>
        /\ UNCHANGED <<leakedIntervals, starts, forceChecks>>
        /\ UNCHANGED hubVars

\* the id's current object in the Map, 0 for undefined
servicesGet(id) ==
    LET at == FindIndex([i \in 1 .. Len(services) |-> svcObjs[services[i]].id = id])
    IN  IF at = 0 THEN 0 ELSE services[at]

\* makeDecision("heal", ...) and, when approved, executeDecision up to the
\* await in connectService
AutoDecision(objs, s) ==
    LET approved == autoOptions.autonomousMode
        target   == servicesGet(objs[s].id)
    IN  [decision |-> [type |-> "heal", service |-> objs[s].id,
                       approved |-> approved, executed |-> approved],
         events   |-> << Ev("decision", s) >> \o (IF approved THEN log ELSE <<>>),
         objs     |-> IF approved /\ target # 0 THEN BeginProbe(objs, target)
                      ELSE objs,
         probes   |-> IF approved /\ target # 0 THEN << target >> ELSE <<>>]

\* the probe awaited by health-check callback i settles: the rest of
\* connectService, the two tests of the loop body, and the loop up to its
\* next await
probeSettles(i, alive) ==
    LET cycle  == cycles[i]
        s      == cycle.svc
        tail   == ConnectTail(svcObjs, s, alive)
        status == tail.objs[s].status
        heal   == AutoDecision(tail.objs, s)
    IN  /\ cycle.pc = "probing"
        /\ lastSettled' = [lastSettled EXCEPT ![s] = status]
        /\ UNCHANGED <<autoOptions, services, autoRunning, healthCheckInterval>>
        /\ UNCHANGED <<controllerVars, now>>
        /\ UNCHANGED <<leakedIntervals, starts, forceChecks>>
        /\ UNCHANGED hubVars
        /\ IF Recovered(cycle.wasHealthy, status)
           THEN LET next == NextService(heal.objs, cycle.pos)
                IN  /\ svcObjs' = next.objs
                    /\ cycles' = Continue(cycles, i, next.cycle)
                    /\ autoDecisions' = Append(autoDecisions, heal.decision)
                    /\ healProbes' = healProbes \o heal.probes
                    /\ autoEmitted' = tail.events
                           \o << ConfigEvent("healed", s) >> \o heal.events
           ELSE IF WentDown(cycle.wasHealthy, status)
           THEN IF autoOptions.notificationWebhook
                THEN /\ svcObjs' = tail.objs
                     /\ cycles' = [cycles EXCEPT ![i].pc = "notifying"]
                     /\ autoEmitted' = tail.events
                            \o << ConfigEvent("disconnected", s) >>
                     /\ UNCHANGED <<autoDecisions, healProbes>>
                ELSE LET next == NextService(tail.objs, cycle.pos)
                     IN  /\ svcObjs' = next.objs
                         /\ cycles' = Continue(cycles, i, next.cycle)
                         /\ autoEmitted' = tail.events
                                \o << ConfigEvent("disconnected", s),
                                      Notification(tail.objs, s) >>
                         /\ UNCHANGED <<autoDecisions, healProbes>>
           ELSE LET next == NextService(tail.objs, cycle.pos)
                IN  /\ svcObjs' = next.objs
                    /\ cycles' = Continue(cycles, i, next.cycle)
                    /\ autoEmitted' = tail.events
                    /\ UNCHANGED <<autoDecisions, healProbes>>
        /\ unannounced' = Announced(s, status, autoEmitted')

\* the webhook request awaited by notifyServiceDown in callback i settles:
\* the rest of notifyServiceDown and the loop up to its next await
webhookSettles(i, delivered) ==
    LET cycle == cycles[i]
        next  == NextService(svcObjs, cycle.pos)
    IN  /\ cycle.pc = "notifying"
        /\ svcObjs' = next.objs
        /\ cycles' = Continue(cycles, i, next.cycle)
        /\ autoEmitted' = (IF delivered THEN <<>> ELSE log)
               \o << Notification(svcObjs, cycle.svc) >>
        /\ unannounced' = unannounced \ {cycle.svc}
        /\ UNCHANGED <<autoOptions, services, autoDecisions, autoRunning,
                       healthCheckInterval, healProbes, lastSettled>>
        /\ UNCHANGED <<controllerVars, now>>
        /\ UNCHANGED <<leakedIntervals, starts, forceChecks>>
        /\ UNCHANGED hubVars

\* the probe awaited by executeDecision settles: the rest of connectService
healProbeSettles(j, alive) ==
    LET tail == ConnectTail(svcObjs, healProbes[j], alive)
    IN  /\ svcObjs' = tail.objs
        /\ healProbes' = RemoveAt(healProbes, j)
        /\ lastSettled' = [lastSettled EXCEPT ![healProbes[j]] =
                               tail.objs[healProbes[j]].status]
        /\ unannounced' = Announced(healProbes[j], tail.objs[healProbes[j]].status,
                                    tail.events)
        /\ autoEmitted' = tail.events
        /\ UNCHANGED <<autoOptions, services, autoDecisions, autoRunning,
                       healthCheckInterval, cycles>>
        /\ UNCHANGED <<controllerVars, now>>
        /\ UNCHANGED <<leakedIntervals, starts, forceChecks>>
        /\ UNCHANGED hubVars

\* ------------------------------------------------- registry lifecycle ----
\* start() is an async method: a call runs up to its next await and is
\* resumed when the awaited promise settles; other handlers run in between.
\* A call in flight is a record of starts: pc is the await it is suspended
\* at ("loaded": await loadFromEnvironment(), "discovering": the probe of
\* candidate `at`, "connecting": the probe of the endpoint svc at Map
\* position `at`).

\* this.services.set(endpoint.id, endpoint): an existing id keeps its place
MapSet(objs, svcs, endpoint) ==
    LET obj == Len(objs) + 1
        at  == FindIndex([i \in 1 .. Len(svcs) |-> objs[svcs[i]].id = endpoint.id])
    IN  [objs     |-> Append(objs, endpoint),
         services |-> IF at = 0 THEN Append(svcs, obj)
                      ELSE [svcs EXCEPT ![at] = obj]]

\* the body of loadFromEnvironment: one endpoint with status unknown, and
\* one log line, for every variable of ENV_VAR_MAPPINGS that is set
RECURSIVE loadFromEnvironment(_, _, _)
loadFromEnvironment(objs, svcs, env) ==
    IF env = <<>> THEN [objs |-> objs, services |-> svcs, events |-> <<>>]
    ELSE LET set  == MapSet(objs, svcs, Endpoint(Head(env)))
             rest == loadFromEnvironment(set.objs, set.services, Tail(env))
         IN  [rest EXCEPT !.events = log \o @]

\* the urls discoverServices probes, in order: the first of the
\* WELL_KNOWN_PORTS x hosts product
WellKnown ==
    << [id |-> "personaplex-discovered-localhost-8998",
        name |-> "personaplex (auto-discovered)", url |-> "ws://localhost:8998"],
       [id |-> "personaplex-discovered-localhost-8999",
        name |-> "personaplex (auto-discovered)", url |-> "ws://localhost:8999"],
       [id |-> "personaplex-discovered-localhost-9000",
        name |-> "personaplex (auto-discovered)", url |-> "ws://localhost:9000"] >>

\* how many of them the model probes
MaxCandidates == 2

Probed == IF MaxCandidates < Len(WellKnown) THEN MaxCandidates ELSE Len(WellKnown)

\* phase 4: startHealthChecks() and emit("started"); the call has returned
StartHealthChecks(objs) ==
    [objs |-> objs, call |-> <<>>, armed |-> TRUE,
     events |-> << Ev("started", Undefined) >>]

\* the for-loop of autoConnectAll after Map position pos: endpoints that
\* are healthy are passed over, the first other one is probed; after the
\* last the call goes on to phase 4
ConnectFrom(objs, svcs, pos) ==
    LET rest == { p \in pos + 1 .. Len(svcs) : objs[svcs[p]].status # "healthy" }
    IN  IF rest = {} THEN StartHealthChecks(objs)
        ELSE LET p == CHOOSE q \in rest : \A r \in rest : q <= r
             IN  [objs   |-> BeginProbe(objs, svcs[p]),
                  call   |-> << [pc |-> "connecting", at |-> p, svc |-> svcs[p]] >>,
                  armed  |-> FALSE,
                  events |-> <<>>]

\* mutant: phase 3 is left out
EnterConnect_Skipped(objs, svcs) == StartHealthChecks(objs)

\* phase 3, if (this.options.autoConnect), up to its first await
EnterConnect(objs, svcs) ==
    IF autoOptions.autoConnect
    THEN LET r == ConnectFrom(objs, svcs, 0)
         IN  [r EXCEPT !.events = log \o @]
    ELSE StartHealthChecks(objs)

\* phase 2, if (this.options.autoDiscover), up to its first await
EnterDiscovery(objs, svcs) ==
    IF autoOptions.autoDiscover
    THEN [objs   |-> objs,
          call   |-> << [pc |-> "discovering", at |-> 1, svc |-> 0] >>,
          armed  |-> FALSE,
          events |-> log]
    ELSE EnterConnect(objs, svcs)

\* start call j has run up to its next await or to its end.  setInterval
\* arms a new timer; a timer this.healthCheckInterval still named goes on
\* firing with no handle left to clear it
Resume(j, r) ==
    /\ svcObjs' = r.objs
    /\ starts' = IF r.call = <<>> THEN RemoveAt(starts, j)
                 ELSE [starts EXCEPT ![j] = r.call[1]]
    /\ healthCheckInterval' = (healthCheckInterval \/ r.armed)
    /\ leakedIntervals' = IF r.armed /\ healthCheckInterval
                          THEN leakedIntervals + 1 ELSE leakedIntervals
    /\ autoEmitted' = r.events

\* start(), up to await this.loadFromEnvironment(); env is what the
\* environment holds
registryStartCall(env) ==
    LET loaded == loadFromEnvironment(svcObjs, services, env)
    IN  /\ IF autoRunning
           THEN /\ autoEmitted' = <<>>
                /\ UNCHANGED <<svcObjs, services, autoRunning, starts, lastSettled>>
           ELSE /\ autoRunning' = TRUE
                /\ svcObjs' = loaded.objs
                /\ services' = loaded.services
                /\ lastSettled' = lastSettled \o [i \in 1 .. Len(env) |-> "unknown"]
                /\ starts' = Append(starts, [pc |-> "loaded", at |-> 0, svc |-> 0])
                /\ autoEmitted' = log \o log \o loaded.events
        /\ UNCHANGED <<autoOptions, autoDecisions, healthCheckInterval,
                       leakedIntervals, cycles, healProbes, forceChecks,
                       unannounced>>
        /\ UNCHANGED <<controllerVars, now>>
        /\ UNCHANGED hubVars

\* start call j is resumed after await this.loadFromEnvironment()
startResumes(j) ==
    /\ starts[j].pc = "loaded"
    /\ Resume(j, EnterDiscovery(svcObjs, services))
    /\ UNCHANGED <<autoOptions, services, autoDecisions, autoRunning, cycles,
                   healProbes, forceChecks, lastSettled, unannounced>>
    /\ UNCHANGED <<controllerVars, now>>
    /\ UNCHANGED hubVars

\* the probe awaited by discoverServices in start call j settles
discoveryProbeSettles(j, alive) ==
    LET candidate == WellKnown[starts[j].at]
        found     == alive /\ servicesGet(candidate.id) = 0
        endpoint  == [id |-> candidate.id, name |-> candidate.name,
                      url |-> candidate.url, status |-> "healthy",
                      lastCheck |-> << now >>]
        set       == IF found THEN MapSet(svcObjs, services, endpoint)
                     ELSE [objs |-> svcObjs, services |-> services]
        events    == IF found
                     THEN << ConfigEvent("discovered", Len(svcObjs) + 1) >> \o log
                     ELSE <<>>
        r         == IF starts[j].at < Probed
                     THEN [objs   |-> set.objs,
                           call   |-> << [pc |-> "discovering",
                                          at |-> starts[j].at + 1, svc |-> 0] >>,
                           armed  |-> FALSE,
                           events |-> <<>>]
                     ELSE EnterConnect(set.objs, set.services)
    IN  /\ starts[j].pc = "discovering"
        /\ services' = set.services
        /\ lastSettled' = IF found THEN Append(lastSettled, "healthy")
                          ELSE lastSettled
        /\ Resume(j, [r EXCEPT !.events = events \o @])
        /\ UNCHANGED <<autoOptions, autoDecisions, autoRunning, cycles,
                       healProbes, forceChecks, unannounced>>
        /\ UNCHANGED <<controllerVars, now>>
        /\ UNCHANGED hubVars

\* the probe awaited by connectService in autoConnectAll, in start call j,
\* settles
connectProbeSettles(j, alive) ==
    LET s    == starts[j].svc
        tail == ConnectTail(svcObjs, s, alive)
        r    == ConnectFrom(tail.objs, services, starts[j].at)
    IN  /\ starts[j].pc = "connecting"
        /\ lastSettled' = [lastSettled EXCEPT ![s] = tail.objs[s].status]
        /\ unannounced' = Announced(s, tail.objs[s].status, tail.events)
        /\ Resume(j, [r EXCEPT !.events = tail.events \o @])
        /\ UNCHANGED <<autoOptions, services, autoDecisions, autoRunning, cycles,
                       healProbes, forceChecks>>
        /\ UNCHANGED <<controllerVars, now>>
        /\ UNCHANGED hubVars

\* stop(): clearInterval on the timer this.healthCheckInterval names
registryStop ==
    /\ autoRunning' = FALSE
    /\ healthCheckInterval' = FALSE
    /\ autoEmitted' = << Ev("stopped", Undefined) >>
    /\ UNCHANGED <<autoOptions, svcObjs, services, autoDecisions,
                   leakedIntervals, starts, cycles, healProbes, forceChecks,
                   lastSettled, unannounced>>
    /\ UNCHANGED <<controllerVars, now>>
    /\ UNCHANGED hubVars

\* forceHealthCheck(), up to the await in its first connectService
forceHealthCheck ==
    /\ IF services = <<>>
       THEN UNCHANGED <<svcObjs, forceChecks>>
       ELSE /\ svcObjs' = BeginProbe(svcObjs, services[1])
            /\ forceChecks' = Append(forceChecks, [at |-> 1, svc |-> services[1]])
    /\ autoEmitted' = <<>>
    /\ UNCHANGED <<autoOptions, services, autoDecisions, autoRunning,
                   healthCheckInterval, leakedIntervals, starts, cycles,
                   healProbes, lastSettled, unannounced>>
    /\ UNCHANGED <<controllerVars, now>>
    /\ UNCHANGED hubVars

\* the probe awaited by forceHealthCheck call k settles: the rest of
\* connectService, then the next endpoint of the Map or the end
forceProbeSettles(k, alive) ==
    LET s    == forceChecks[k].svc
        at   == forceChecks[k].at
        tail == ConnectTail(svcObjs, s, alive)
    IN  /\ IF at < Len(services)
           THEN /\ svcObjs' = BeginProbe(tail.objs, services[at + 1])
                /\ forceChecks' = [forceChecks EXCEPT
                       ![k] = [at |-> at + 1, svc |-> services[at + 1]]]
           ELSE /\ svcObjs' = tail.objs
                /\ forceChecks' = RemoveAt(forceChecks, k)
        /\ lastSettled' = [lastSettled EXCEPT ![s] = tail.objs[s].status]
        /\ unannounced' = Announced(s, tail.objs[s].status, tail.events)
        /\ autoEmitted' = tail.events
        /\ UNCHANGED <<autoOptions, services, autoDecisions, autoRunning,
                       healthCheckInterval, leakedIntervals, starts, cycles,
                       healProbes>>
        /\ UNCHANGED <<controllerVars, now>>
        /\ UNCHANGED hubVars

\* ------------------------------------------------------ notifications ----
\* NotificationManager (auto-config.ts:724-1146).  No channel is configured
\* and the environment is empty, so the console channel delivers and every
\* other channel returns false without a request: a call runs to its end
\* with no timer or I/O callback in between.  A text is a sequence of
\* pieces <<"lit", text>>, <<"val", value>> or <<"key", name>> (a
\* placeholder left in place); ids and emoji are left out.  The clock ticks
\* every 30 s.
\*
\* notify and its helpers declare `_message` and read `message`
\* (761, 772-792, 879-898, 1057-1075).  messageBound tells whether the build
\* resolves the reads to the declaration; where it does not, the first read
\* throws a ReferenceError.
\* the characters of the strings the notifier looks into
Chars(str) ==
    CASE str = "service.down" -> <<"s", "e", "r", "v", "i", "c", "e", ".", "d", "o", "w", "n">>
      [] str = "service.unhealthy" -> <<"s", "e", "r", "v", "i", "c", "e", ".", "u", "n", "h", "e", "a", "l", "t", "h", "y">>
      [] str = "service.recovered" -> <<"s", "e", "r", "v", "i", "c", "e", ".", "r", "e", "c", "o", "v", "e", "r", "e", "d">>
      [] str = "service.healed" -> <<"s", "e", "r", "v", "i", "c", "e", ".", "h", "e", "a", "l", "e", "d">>
      [] str = "decision.*" -> <<"d", "e", "c", "i", "s", "i", "o", "n", ".", "*">>
      [] str = "error.critical" -> <<"e", "r", "r", "o", "r", ".", "c", "r", "i", "t", "i", "c", "a", "l">>
      [] str = "error.fatal" -> <<"e", "r", "r", "o", "r", ".", "f", "a", "t", "a", "l">>
      [] str = "user.onboarded" -> <<"u", "s", "e", "r", ".", "o", "n", "b", "o", "a", "r", "d", "e", "d">>
      [] str = "poke.greeting" -> <<"p", "o", "k", "e", ".", "g", "r", "e", "e", "t", "i", "n", "g">>
      [] str = "agent.task.complete" -> <<"a", "g", "e", "n", "t", ".", "t", "a", "s", "k", ".", "c", "o", "m", "p", "l", "e", "t", "e">>
      [] str = "x.*" -> <<"x", ".", "*">>
      [] str = "x.down" -> <<"x", ".", "d", "o", "w", "n">>
      [] str = "xydown" -> <<"x", "y", "d", "o", "w", "n">>
      [] str = "x.up" -> <<"x", ".", "u", "p">>
      [] str = "critical" -> <<"c", "r", "i", "t", "i", "c", "a", "l">>
      [] str = "fatal" -> <<"f", "a", "t", "a", "l">>
      [] str = "error" -> <<"e", "r", "r", "o", "r">>
      [] str = "down" -> <<"d", "o", "w", "n">>
      [] str = "warning" -> <<"w", "a", "r", "n", "i", "n", "g">>
      [] str = "degraded" -> <<"d", "e", "g", "r", "a", "d", "e", "d">>

\* String.prototype.includes
Includes(str, word) ==
    \E i \in 1 .. (Len(Chars(str)) - Len(Chars(word)) + 1) :
        SubSeq(Chars(str), i, i + Len(Chars(word)) - 1) = Chars(word)

\* new RegExp("^" + pattern.replace(/\*/g, ".*") + "$").test(name), on the
\* characters: "*" stands for any run of characters and an unescaped "."
\* for any one character
RECURSIVE RegExpTest(_, _)
RegExpTest(pattern, name) ==
    IF pattern = <<>> THEN name = <<>>
    ELSE IF Head(pattern) = "*"
    THEN \E k \in 0 .. Len(name) :
            RegExpTest(Tail(pattern), SubSeq(name, k + 1, Len(name)))
    ELSE /\ name # <<>>
         /\ Head(pattern) = "." \/ Head(pattern) = Head(name)
         /\ RegExpTest(Tail(pattern), Tail(name))

matchesPattern(eventName, patterns) ==
    \E i \in 1 .. Len(patterns) :
        RegExpTest(Chars(patterns[i]), Chars(eventName))

interpolateTemplate(template, data) ==
    [i \in 1 .. Len(template) |->
        IF template[i][1] = "key" /\ template[i][2] \in DOMAIN data
        THEN <<"val", data[template[i][2]]>>
        ELSE template[i]]

eventToPriority(eventName, defaultPriority) ==
    IF Includes(eventName, "critical") \/ Includes(eventName, "fatal")
    THEN "urgent"
    ELSE IF Includes(eventName, "error") \/ Includes(eventName, "down")
    THEN "high"
    ELSE IF Includes(eventName, "warning") \/ Includes(eventName, "degraded")
    THEN "normal"
    ELSE IF defaultPriority = Undefined THEN "low"
    ELSE defaultPriority

hashMessage(message) == <<message.title, message.body, message.priority>>

\* checkRateLimit: whether the message may go out, and the bucket it leaves
checkRateLimit(bucket, at) ==
    LET InWindow(t) == t > at - windowMs
        filtered    == SelectSeq(bucket, InWindow)
        limit       == IF notifyConfig.globalRateLimitPerMinute = 0 THEN 60
                       ELSE notifyConfig.globalRateLimitPerMinute
    IN  IF Len(filtered) >= limit
        THEN [allowed |-> FALSE, bucket |-> bucket]
        ELSE [allowed |-> TRUE, bucket |-> Append(filtered, at)]

deliverToChannel(channel) == channel = "console"

NewMessage(title, body, priority, channels, ruleId) ==
    [title     |-> title,
     body      |-> body,
     priority  |-> priority,
     channels  |-> channels,
     ruleId    |-> ruleId,
     timestamp |-> now,
     delivered |-> FALSE,
     deliveredAt |-> <<>>]

\* the notifier's mutable state as a record, threaded through the calls of
\* one triggerEvent
NotifierState ==
    [history  |-> history,
     bucket   |-> rateLimitBuckets,
     hashes   |-> recentHashes,
     timers   |-> hashTimers,
     events   |-> <<>>,
     outcomes |-> <<>>]

\* the body of notify, with `message` bound
Notify(st, message) ==
    IF hashMessage(message) \in st.hashes
    THEN [st EXCEPT !.events = Append(@, Ev("duplicate", message.ruleId)),
                    !.outcomes = Append(@, "duplicate")]
    ELSE LET deduped == [st EXCEPT
                 !.hashes = @ \cup {hashMessage(message)},
                 !.timers = Append(@, [hash |-> hashMessage(message),
                     due |-> now + notifyConfig.deduplicationWindowMs])]
             limit   == checkRateLimit(st.bucket, now)
         IN  IF notifyConfig.rateLimitEnabled /\ ~limit.allowed
             THEN [deduped EXCEPT
                      !.events = Append(@, Ev("rate_limited", message.ruleId)),
                      !.outcomes = Append(@, "rate_limited")]
             ELSE [deduped EXCEPT
                      !.bucket = IF notifyConfig.rateLimitEnabled
                                 THEN limit.bucket ELSE @,
                      !.history = Append(@, [message EXCEPT
                          !.delivered = \E i \in 1 .. Len(message.channels) :
                                           deliverToChannel(message.channels[i]),
                          !.deliveredAt = <<now>>]),
                      !.events = Append(@, Ev("sent", message.ruleId)),
                      !.outcomes = Append(@, "sent")]

NotifierResult(st, method) ==
    /\ history' = st.history
    /\ rateLimitBuckets' = st.bucket
    /\ recentHashes' = st.hashes
    /\ hashTimers' = st.timers
    /\ notifyEmitted' = st.events
    /\ notifyRet' = <<method, st.outcomes>>

\* the call is rejected with the ReferenceError of its first read of `message`
NotifierThrows(method) ==
    /\ notifyEmitted' = <<>>
    /\ notifyRet' = <<method, <<"ReferenceError">> >>
    /\ UNCHANGED <<history, rateLimitBuckets, recentHashes, hashTimers>>

notify(title, body, options) ==
    LET message == NewMessage(title, body,
            IF "priority" \in DOMAIN options THEN options.priority ELSE "normal",
            IF "channels" \in DOMAIN options THEN options.channels
            ELSE notifyConfig.defaultChannels,
            Undefined)
    IN  /\ IF messageBound THEN NotifierResult(Notify(NotifierState, message), "notify")
           ELSE NotifierThrows("notify")
        /\ UNCHANGED <<messageBound, notifyConfig, rules>>
        /\ UNCHANGED <<controllerVars, now, registryVars>>
        /\ UNCHANGED obsVars

RuleMessage(rule, eventName, data) ==
    NewMessage(
        IF rule.template = <<>> THEN << <<"lit", eventName>> >>
        ELSE interpolateTemplate(rule.template[1].title, data),
        IF rule.template = <<>> THEN << <<"json", data.message>> >>
        ELSE interpolateTemplate(rule.template[1].body, data),
        eventToPriority(eventName, rule.minPriority),
        rule.channels,
        rule.id)

\* the loop of triggerEvent over the matching rules
RECURSIVE NotifyRules(_, _, _, _)
NotifyRules(st, matchingRules, eventName, data) ==
    IF matchingRules = <<>> THEN st
    ELSE NotifyRules(Notify(st, RuleMessage(Head(matchingRules), eventName, data)),
                     Tail(matchingRules), eventName, data)

triggerEvent(eventName, data) ==
    LET Matching(rule) == rule.enabled /\ matchesPattern(eventName, rule.eventPatterns)
        matchingRules  == SelectSeq(rules, Matching)
    IN  /\ IF messageBound \/ matchingRules = <<>>
           THEN NotifierResult(NotifyRules(NotifierState, matchingRules,
                                           eventName, data), "triggerEvent")
           ELSE NotifierThrows("triggerEvent")
        /\ UNCHANGED <<messageBound, notifyConfig, rules>>
        /\ UNCHANGED <<controllerVars, now, registryVars>>
        /\ UNCHANGED obsVars

addRule(rule) ==
    /\ rules' = Append(rules, rule)
    /\ notifyEmitted' = << Ev("rule_added", rule.id) >>
    /\ notifyRet' = <<>>
    /\ UNCHANGED <<messageBound, notifyConfig, history, rateLimitBuckets,
                   recentHashes, hashTimers>>
    /\ UNCHANGED <<controllerVars, now, registryVars>>
    /\ UNCHANGED obsVars

removeRule(ruleId) ==
    LET Other(rule) == rule.id # ruleId
    IN  /\ rules' = SelectSeq(rules, Other)
        /\ notifyEmitted' = << Ev("rule_removed", ruleId) >>
        /\ notifyRet' = <<>>
        /\ UNCHANGED <<messageBound, notifyConfig, history, rateLimitBuckets,
                       recentHashes, hashTimers>>
        /\ UNCHANGED <<controllerVars, now, registryVars>>
        /\ UNCHANGED obsVars

\* Array.prototype.find: the first rule of that id
setRuleEnabled(ruleId, enabled) ==
    LET at == FindIndex([i \in 1 .. Len(rules) |-> rules[i].id = ruleId])
    IN  /\ rules' = IF at = 0 THEN rules
                    ELSE [rules EXCEPT ![at].enabled = enabled]
        /\ notifyEmitted' = <<>>
        /\ notifyRet' = <<>>
        /\ UNCHANGED <<messageBound, notifyConfig, history, rateLimitBuckets,
                       recentHashes, hashTimers>>
        /\ UNCHANGED <<controllerVars, now, registryVars>>
        /\ UNCHANGED obsVars

\* the setTimeout callback armed by isDuplicate; the timers have one delay
\* and fire in the order they were armed, not before they are due
hashTimeout ==
    /\ hashTimers # <<>>
    /\ Head(hashTimers).due <= now
    /\ recentHashes' = recentHashes \ {Head(hashTimers).hash}
    /\ hashTimers' = Tail(hashTimers)
    /\ notifyEmitted' = <<>>
    /\ notifyRet' = <<>>
    /\ UNCHANGED <<messageBound, notifyConfig, rules, history, rateLimitBuckets>>
    /\ UNCHANGED <<controllerVars, now, registryVars>>
    /\ UNCHANGED obsVars

\* one tick of the constructor's setInterval
cleanupRateLimits ==
    LET InWindow(t) == t > now - windowMs
    IN  /\ rateLimitBuckets' = SelectSeq(rateLimitBuckets, InWindow)
        /\ notifyEmitted' = <<>>
        /\ notifyRet' = <<>>
        /\ UNCHANGED <<messageBound, notifyConfig, rules, history, recentHashes,
                       hashTimers>>
        /\ UNCHANGED <<controllerVars, now, registryVars>>
        /\ UNCHANGED obsVars

\* ------------------------------------------------------ observability ----
\* ObservabilityManager (observability.ts).  generateId hands out fresh ids,
\* written 1, 2, ...; 0 stands for an id that was never handed out.  An
\* optional field is <<>> when undefined and <<value>> when set.  A metric
\* key is <<name, labels>>, labels sorted by key.  Health checks, the
\* periodic memory gauges and the summary timer are left out: they touch
\* neither spans nor logs, and the alerts they raise are createAlert calls.
TicksPerHour == 120

\* Array.from(this.activeSpans.values()) [spans.length - 1]
CurrentSpan_Oldest(active) ==
    IF active = <<>> THEN <<>> ELSE << active[1] >>

CurrentSpan(active) ==
    IF active = <<>> THEN <<>> ELSE << active[Len(active)] >>

\* this.spans.get(spanId): the position of the span, 0 for undefined
spansGet(all, spanId) ==
    FindIndex([i \in 1 .. Len(all) |-> all[i].spanId = spanId])

Metric(name, value, type, labels) ==
    [name |-> name, value |-> value, type |-> type, labels |-> labels,
     timestamp |-> now]

NewAlert(id, severity, title, message, source) ==
    [id           |-> id,
     severity     |-> severity,
     title        |-> title,
     message      |-> message,
     source       |-> source,
     acknowledged |-> FALSE,
     resolvedAt   |-> <<>>]

\* the hub's mutable state as a record, threaded through nested calls
HubState ==
    [lastId   |-> lastId,
     metrics  |-> metrics,
     logs     |-> logs,
     alerts   |-> alerts,
     counters |-> counters,
     events   |-> <<>>]

\* the metric's name holds "latency": of the names the hub itself produces,
\* only recordLatency's histograms do
NameHasLatency(name) == name = "request_latency_ms"

\* createAlert without its counter
PushAlert(st, severity, title, message, source) ==
    [st EXCEPT !.lastId = @ + 1,
               !.alerts = Append(@, NewAlert(st.lastId + 1, severity, title,
                                             message, source)),
               !.events = Append(@, Ev("alert", st.lastId + 1))]

\* recordMetric: push, emit, trim by age, check the latency threshold (no
\* name the hub produces holds "error_rate").  The alert raised for a high
\* latency counts itself in alerts_total, a metric that raises no alert.
RECURSIVE recordMetric(_, _)
incrementCounter(st, name, labels) ==
    LET key     == <<name, labels>>
        current == IF key \in DOMAIN st.counters THEN st.counters[key] ELSE 0
    IN  recordMetric([st EXCEPT !.counters = (key :> current + 1) @@ @],
                     Metric(name, current + 1, "counter", labels))

createAlert(st, severity, title, message, source) ==
    incrementCounter(PushAlert(st, severity, title, message, source),
                     "alerts_total",
                     << <<"severity", severity>>, <<"source", source>> >>)

recordMetric(st, metric) ==
    LET hours    == IF obsConfig.metricsRetentionHours = 0 THEN 24
                    ELSE obsConfig.metricsRetentionHours
        Recent(m) == m.timestamp > now - hours * TicksPerHour
        pushed   == [st EXCEPT
                        !.metrics = SelectSeq(Append(@, metric), Recent),
                        !.events = Append(@, Ev("metric", metric.name))]
        limit    == IF obsConfig.latencyMs = 0 THEN 5000 ELSE obsConfig.latencyMs
    IN  IF /\ obsConfig.anomalyDetection
           /\ NameHasLatency(metric.name)
           /\ metric.value > limit
        THEN createAlert(pushed, "warning", "High Latency", "latency", metric.name)
        ELSE pushed

\* the private log method
LogEntry(st, level, component, message) ==
    LET current == CurrentSpan(activeSpans)
        entry   == [level |-> level, component |-> component,
                    message |-> message,
                    traceId |-> IF current = <<>> THEN <<>>
                                ELSE << spans[spansGet(spans, current[1])].traceId >>,
                    spanId  |-> current]
        retain  == IF obsConfig.logRetentionCount = 0 THEN 10000
                   ELSE obsConfig.logRetentionCount
        pushed  == Append(st.logs, entry)
    IN  [st EXCEPT
            !.logs = IF Len(pushed) > retain /\ obsConfig.logRetentionCount # 0
                     THEN SubSeq(pushed,
                                 Len(pushed) - obsConfig.logRetentionCount + 1,
                                 Len(pushed))
                     ELSE pushed,
            !.events = Append(@, Ev("log", level))]

HubResult(st, value) ==
    /\ lastId' = st.lastId
    /\ metrics' = st.metrics
    /\ logs' = st.logs
    /\ alerts' = st.alerts
    /\ counters' = st.counters
    /\ obsEmitted' = st.events
    /\ obsRet' = value
    /\ UNCHANGED obsConfig
    /\ UNCHANGED <<controllerVars, now, registryVars, notifyVars>>

info(component, message) ==
    /\ HubResult(LogEntry(HubState, "info", component, message), <<>>)
    /\ UNCHANGED <<spans, activeSpans>>

warn(component, message) ==
    /\ HubResult(incrementCounter(LogEntry(HubState, "warn", component, message),
                                  "log_warnings_total",
                                  << <<"component", component>> >>), <<>>)
    /\ UNCHANGED <<spans, activeSpans>>

fatal(component, message) ==
    /\ HubResult(createAlert(LogEntry(HubState, "fatal", component, message),
                             "critical", <<"Fatal error in", component>>,
                             message, component), <<>>)
    /\ UNCHANGED <<spans, activeSpans>>

\* the public createAlert
raiseAlert(severity, title, message, source) ==
    LET st == createAlert(HubState, severity, title, message, source)
    IN  /\ HubResult(st, <<"createAlert", << st.lastId >> >>)
        /\ UNCHANGED <<spans, activeSpans>>

recordLatency(value) ==
    /\ HubResult(recordMetric(HubState,
                   Metric("request_latency_ms", value, "histogram", <<>>)),
                 <<"recordLatency", << value >> >>)
    /\ UNCHANGED <<spans, activeSpans>>

\* Array.prototype.find: the first alert of that id
acknowledgeAlert(alertId) ==
    LET at == FindIndex([i \in 1 .. Len(alerts) |-> alerts[i].id = alertId])
    IN  /\ alerts' = IF at = 0 THEN alerts
                     ELSE [alerts EXCEPT ![at].acknowledged = TRUE]
        /\ obsEmitted' = IF at = 0 THEN <<>>
                         ELSE << Ev("alert_acknowledged", alertId) >>
        /\ obsRet' = <<>>
        /\ UNCHANGED <<obsConfig, lastId, metrics, logs, spans, activeSpans,
                       counters>>
        /\ UNCHANGED <<controllerVars, now, registryVars, notifyVars>>

\* Date.now() is never 0: resolvedAt is truthy once set
resolveAlert(alertId) ==
    LET at == FindIndex([i \in 1 .. Len(alerts) |-> alerts[i].id = alertId])
    IN  /\ alerts' = IF at = 0 THEN alerts
                     ELSE [alerts EXCEPT ![at].resolvedAt = << now >>]
        /\ obsEmitted' = IF at = 0 THEN <<>>
                         ELSE << Ev("alert_resolved", alertId) >>
        /\ obsRet' = <<>>
        /\ UNCHANGED <<obsConfig, lastId, metrics, logs, spans, activeSpans,
                       counters>>
        /\ UNCHANGED <<controllerVars, now, registryVars, notifyVars>>

\* mutant: an acknowledged alert is no longer active
Unresolved_Unacknowledged(alert) ==
    alert.resolvedAt = <<>> /\ ~alert.acknowledged

\* !a.resolvedAt
Unresolved(alert) == alert.resolvedAt = <<>>

\* the ids of the alerts that getActiveAlerts returns, in order
ActiveAlertIds(all) ==
    LET Kept(i) == Unresolved(all[i])
    IN  [k \in 1 .. Len(SelectSeq([i \in 1 .. Len(all) |-> i], Kept)) |->
            all[SelectSeq([i \in 1 .. Len(all) |-> i], Kept)[k]].id]

getActiveAlerts ==
    /\ obsRet' = <<"getActiveAlerts", ActiveAlertIds(alerts)>>
    /\ obsEmitted' = <<>>
    /\ UNCHANGED <<obsConfig, lastId, metrics, logs, spans, activeSpans, alerts,
                   counters>>
    /\ UNCHANGED <<controllerVars, now, registryVars, notifyVars>>

startSpan(name) ==
    LET parentSpan == CurrentSpan(activeSpans)
        parent     == IF parentSpan = <<>> THEN 0 ELSE spansGet(spans, parentSpan[1])
        \* generateId is called for the traceId first, when there is no parent
        traceId    == IF parent = 0 THEN lastId + 1 ELSE spans[parent].traceId
        spanId     == IF parent = 0 THEN lastId + 2 ELSE lastId + 1
        span       == [traceId      |-> traceId,
                       spanId       |-> spanId,
                       parentSpanId |-> parentSpan,
                       name         |-> name,
                       startTime    |-> now,
                       endTime      |-> <<>>,
                       status       |-> "unset",
                       events       |-> <<>>]
    IN  /\ lastId' = spanId
        /\ spans' = Append(spans, span)
        /\ activeSpans' = Append(activeSpans, spanId)
        /\ obsEmitted' = << Ev("span_start", spanId) >>
        /\ obsRet' = <<"startSpan", << spanId >> >>
        /\ UNCHANGED <<obsConfig, metrics, logs, alerts, counters>>
        /\ UNCHANGED <<controllerVars, now, registryVars, notifyVars>>

\* Map.delete
MapDelete(active, spanId) ==
    LET Other(id) == id # spanId
    IN  SelectSeq(active, Other)

endSpan(spanId, status) ==
    LET at == spansGet(spans, spanId)
        st == recordMetric([HubState EXCEPT
                               !.events = << Ev("span_end", spanId) >>],
                  Metric("span_duration_ms", now - spans[at].startTime,
                         "histogram", << <<"name", spans[at].name>> >>))
    IN  IF at = 0
        THEN /\ obsEmitted' = <<>>
             /\ obsRet' = <<>>
             /\ UNCHANGED <<obsConfig, lastId, metrics, logs, spans, activeSpans,
                            alerts, counters>>
             /\ UNCHANGED <<controllerVars, now, registryVars, notifyVars>>
        ELSE /\ spans' = [spans EXCEPT ![at].endTime = << now >>,
                                       ![at].status = status]
             /\ activeSpans' = MapDelete(activeSpans, spanId)
             /\ HubResult(st, <<>>)

addSpanEvent(spanId, name) ==
    LET at == spansGet(spans, spanId)
    IN  /\ spans' = IF at = 0 THEN spans
                    ELSE [spans EXCEPT ![at].events = Append(@, name)]
        /\ obsEmitted' = <<>>
        /\ obsRet' = <<>>
        /\ UNCHANGED <<obsConfig, lastId, metrics, logs, activeSpans, alerts,
                       counters>>
        /\ UNCHANGED <<controllerVars, now, registryVars, notifyVars>>

getCurrentSpan ==
    /\ obsRet' = <<"getCurrentSpan", CurrentSpan(activeSpans)>>
    /\ obsEmitted' = <<>>
    /\ UNCHANGED <<obsConfig, lastId, metrics, logs, spans, activeSpans, alerts,
                   counters>>
    /\ UNCHANGED <<controllerVars, now, registryVars, notifyVars>>

\* ------------------------------------------------------ specifications ----
\* The task side of the controller.  stop only disarms the dispatch timer, so
\* it adds no queue, task or capability state that a started controller
\* cannot reach, and is not a disjunct here.
Next ==
    \/ start
    \/ \E updates \in ConcurrencyUpdates : updateConfig(updates)
    \/ /\ Len(tasks) < MaxTasks
       /\ \E type \in SubmitTypes, options \in SubmitOptions :
            submitTask(type, "input", options)
    \/ \E taskId \in CancelIds : cancelTask(taskId)
    \/ /\ registrations < MaxRegistrations
       /\ \E capability \in RegisterInputs : registerCapability(capability)
    \/ processTaskQueue
    \/ \E t \in activeTasks, latency \in LatencySamples : executeTask(t, latency)
    \/ \E t \in activeTasks : handleTaskError(t)

Spec == Init /\ [][Next]_vars

\* The task side with the clock, the health monitor and its cooldown timers:
\* tasks age in the queue behind a small concurrency cap, and a capability
\* registered with a poor success rate is disabled and re-enabled.
HealthOptions ==
    { [maxConcurrentTasks |-> n, maxRetries |-> MaxRetries, taskTimeoutMs |-> 1] :
        n \in 1 .. MaxConcurrent }

HealthRegisterInputs ==
    { [id |-> "personaplex-voice", type |-> "personaplex", priority |-> 1,
       enabled |-> TRUE, maxConcurrent |-> 5, currentLoad |-> 0,
       successRate |-> (SRScale * 4) \div 10, avgLatencyMs |-> 100 * LatScale] }

InitHealth == \E options \in HealthOptions : InitWith(options)

NextHealth ==
    \/ start
    \/ /\ Len(tasks) < MaxTasks
       /\ submitTask("voice", "input", <<>>)
    \/ \E taskId \in 1 .. MaxTasks : cancelTask(taskId)
    \/ /\ registrations < MaxRegistrations
       /\ \E capability \in HealthRegisterInputs : registerCapability(capability)
    \/ processTaskQueue
    \/ \E t \in activeTasks : executeTask(t, 0)
    \/ \E t \in activeTasks : handleTaskError(t)
    \/ /\ now < MaxClock
       /\ clockAdvance
    \/ /\ Len(cooldowns) < MaxCooldowns
       /\ \E drift \in 0 .. 1 :
            /\ now + drift <= MaxClock
            /\ monitorHealth(drift)
    \/ cooldownTimeout

SpecHealth == InitHealth /\ [][NextHealth]_vars

\* The controller started, stopped and started again while tasks wait and the
\* health monitor and its timers run.
MaxStarts == 2
StopTasks == 1

StopOptions == { [taskTimeoutMs |-> 1, selfHealing |-> TRUE] }

InitStop == \E options \in StopOptions : InitWith(options)

NextStop ==
    \/ /\ healthIntervals < MaxStarts
       /\ start
    \/ stop
    \/ /\ Len(tasks) < StopTasks
       /\ submitTask("voice", "input", <<>>)
    \/ /\ registrations < MaxRegistrations
       /\ \E capability \in HealthRegisterInputs : registerCapability(capability)
    \/ processTaskQueue
    \/ \E t \in activeTasks : executeTask(t, 0)
    \/ /\ now < MaxClock
       /\ clockAdvance
    \/ /\ Len(cooldowns) < MaxCooldowns
       /\ monitorHealth(0)
    \/ cooldownTimeout

SpecStop == InitStop /\ [][NextStop]_vars

\* Termination: finitely many tasks, every executor call settles (resolved
\* or rejected), the dispatch tick, the health tick, the re-enable timers and
\* the clock keep going.  A task is submitted early enough for its queue
\* timeout to fall within the clock's bound.
LiveTasks == 2
LiveClock == 3

LiveOptions == { [maxRetries |-> MaxRetries, taskTimeoutMs |-> 1, selfHealing |-> TRUE] }

InitLive == \E options \in LiveOptions : InitWith(options)

settles(t) == executeTask(t, 0) \/ handleTaskError(t)

healthTick ==
    \E drift \in 0 .. 1 :
        /\ now + drift <= LiveClock
        /\ Len(cooldowns) < MaxCooldowns
        /\ monitorHealth(drift)

NextLive ==
    \/ start
    \/ /\ Len(tasks) < LiveTasks
       /\ now + config.taskTimeoutMs < LiveClock
       /\ submitTask("voice", "input", <<>>)
    \/ \E taskId \in 1 .. LiveTasks : cancelTask(taskId)
    \/ /\ registrations < MaxRegistrations
       /\ \E capability \in HealthRegisterInputs : registerCapability(capability)
    \/ processTaskQueue
    \/ \E t \in activeTasks : settles(t)
    \/ /\ now < LiveClock
       /\ clockAdvance
    \/ healthTick
    \/ cooldownTimeout

SpecLive ==
    /\ InitLive
    /\ [][NextLive]_vars
    /\ WF_vars(start)
    /\ WF_vars(processTaskQueue)
    /\ \A t \in 1 .. LiveTasks : WF_vars(t \in activeTasks /\ settles(t))
    /\ WF_vars(now < LiveClock /\ clockAdvance)
    /\ WF_vars(healthTick)
    /\ WF_vars(cooldownTimeout)

\* Consecutive failures: every executor call is rejected, tasks are retried
\* up to DecayRetries times on the one capability of their family, and the
\* health monitor runs with self-healing on or off.
DecayOptions ==
    { [maxRetries |-> DecayRetries, selfHealing |-> b] : b \in BOOLEAN }

InitDecay == \E options \in DecayOptions : InitWith(options)

NextDecay ==
    \/ start
    \/ /\ Len(tasks) < MaxTasks
       /\ submitTask("voice", "input", <<>>)
    \/ processTaskQueue
    \/ \E t \in activeTasks : handleTaskError(t)
    \/ /\ Len(cooldowns) < MaxCooldowns
       /\ monitorHealth(0)
    \/ cooldownTimeout

SpecDecay == InitDecay /\ [][NextDecay]_vars

\* Cooldowns on the clock: a voice capability registered with a poor
\* success rate, health ticks at any time, re-enable timers that fire when
\* their 60 s are over, and a task that can fail often enough to bring the
\* re-enabled capability below 0.5 again.
CooldownOptions == { [maxRetries |-> 3, selfHealing |-> TRUE] }

InitCooldown == \E options \in CooldownOptions : InitWith(options)

NextCooldown ==
    \/ start
    \/ /\ registrations < MaxRegistrations
       /\ \E capability \in HealthRegisterInputs : registerCapability(capability)
    \/ /\ Len(tasks) < CooldownTasks
       /\ submitTask("voice", "input", <<>>)
    \/ processTaskQueue
    \/ \E t \in activeTasks : executeTask(t, 0)
    \/ \E t \in activeTasks : handleTaskError(t)
    \/ /\ Len(cooldowns) < CooldownTimers
       /\ monitorHealth(0)
    \/ /\ TimerDue
       /\ cooldownTimeout
    \/ /\ NoTimerDue
       /\ now < CooldownClock
       /\ clockAdvance

SpecCooldown == InitCooldown /\ [][NextCooldown]_vars

\* The service registry: endpoints are registered and re-registered while
\* health-check callbacks, webhook requests and heal re-probes are in flight.
RegistryOptions ==
    { [autoDiscover |-> FALSE, autoConnect |-> FALSE, autonomousMode |-> a,
       autoHeal |-> h, notificationWebhook |-> w] :
        a \in BOOLEAN, h \in BOOLEAN, w \in BOOLEAN }

ServiceInputs ==
    { [id |-> "svc-1", name |-> "Service", url |-> "http://a"],
      [id |-> "svc-2", name |-> "Service", url |-> "http://a"],
      [id |-> "svc-1", name |-> "Service", url |-> "http://b",
       status |-> "healthy", lastCheck |-> <<0>>] }

InitRegistry ==
    /\ \E options \in RegistryOptions : InitAutoConfig(options)
    /\ InitController(<<>>)
    /\ InitHub

NextRegistry ==
    \/ registryStart
    \/ /\ Len(svcObjs) < MaxEndpoints
       /\ \E service \in ServiceInputs : registerService(service)
    \/ /\ Len(cycles) < MaxCycles
       /\ healthCheckTick
    \/ \E i \in 1 .. Len(cycles), alive \in BOOLEAN :
          /\ Recovered(cycles[i].wasHealthy, IF alive THEN "healthy" ELSE "unhealthy")
             => Len(autoDecisions) < MaxHeals
          /\ probeSettles(i, alive)
    \/ \E i \in 1 .. Len(cycles), delivered \in BOOLEAN : webhookSettles(i, delivered)
    \/ \E j \in 1 .. Len(healProbes), alive \in BOOLEAN : healProbeSettles(j, alive)

SpecRegistry == InitRegistry /\ [][NextRegistry]_vars

\* Every webhook request settles: each health-check callback that awaits
\* one is eventually resumed.
SpecRegistryLive ==
    /\ SpecRegistry
    /\ \A i \in 1 .. MaxCycles :
          WF_vars(\E delivered \in BOOLEAN :
                     i <= Len(cycles) /\ webhookSettles(i, delivered))

\* The registry's start(): the environment holds one endpoint or none,
\* discovery and auto-connect are on or off, a service is registered before,
\* during or after the call, start() is called again, and the health-check
\* interval fires once armed.
MaxStartEndpoints == 2

EnvInputs ==
    { <<>>,
      << [id |-> "personaplex-env-personaplex_url",
          name |-> "personaplex (PERSONAPLEX_URL)", url |-> "ws://env"] >> }

StartupOptions ==
    { [autoDiscover |-> d, autoConnect |-> c, autonomousMode |-> FALSE,
       autoHeal |-> FALSE] : d \in BOOLEAN, c \in BOOLEAN }

StartupServices == { [id |-> "svc-1", name |-> "Service", url |-> "http://a"] }

InitStartup ==
    /\ \E options \in StartupOptions : InitAutoConfig(options)
    /\ InitController(<<>>)
    /\ InitHub

NextStartup ==
    \/ \E env \in EnvInputs : registryStartCall(env)
    \/ \E j \in 1 .. Len(starts) : startResumes(j)
    \/ \E j \in 1 .. Len(starts), alive \in BOOLEAN : discoveryProbeSettles(j, alive)
    \/ \E j \in 1 .. Len(starts), alive \in BOOLEAN : connectProbeSettles(j, alive)
    \/ /\ Len(svcObjs) < MaxStartEndpoints
       /\ \E service \in StartupServices : registerService(service)
    \/ /\ cycles = <<>>
       /\ healthCheckTick
    \/ \E i \in 1 .. Len(cycles), alive \in BOOLEAN : probeSettles(i, alive)

SpecStartup == InitStartup /\ [][NextStartup]_vars

\* start() and stop() in any order, stop() also while a start() call is
\* suspended.
MaxStartCalls == 2
LifecycleEndpoints == 1

NextLifecycle ==
    \/ /\ Len(starts) + leakedIntervals < MaxStartCalls
       /\ \E env \in EnvInputs :
            /\ Len(svcObjs) + Len(env) <= LifecycleEndpoints
            /\ registryStartCall(env)
    \/ registryStop
    \/ \E j \in 1 .. Len(starts) : startResumes(j)
    \/ \E j \in 1 .. Len(starts), alive \in BOOLEAN : discoveryProbeSettles(j, alive)
    \/ \E j \in 1 .. Len(starts), alive \in BOOLEAN : connectProbeSettles(j, alive)
    \/ /\ cycles = <<>>
       /\ healthCheckTick
    \/ \E i \in 1 .. Len(cycles), alive \in BOOLEAN : probeSettles(i, alive)

SpecLifecycle == InitStartup /\ [][NextLifecycle]_vars

\* The three callers of connectService side by side: the interval callback,
\* the re-probe of an executed heal decision, and forceHealthCheck().
MaxForceChecks == 1

ForceOptions ==
    { [autoDiscover |-> FALSE, autoConnect |-> FALSE, autonomousMode |-> TRUE,
       autoHeal |-> TRUE] }

InitForce ==
    /\ \E options \in ForceOptions : InitAutoConfig(options)
    /\ InitController(<<>>)
    /\ InitHub

NextForce ==
    \/ registryStart
    \/ /\ Len(svcObjs) < MaxEndpoints
       /\ \E service \in StartupServices : registerService(service)
    \/ /\ cycles = <<>>
       /\ healthCheckTick
    \/ \E i \in 1 .. Len(cycles), alive \in BOOLEAN :
          /\ Recovered(cycles[i].wasHealthy, IF alive THEN "healthy" ELSE "unhealthy")
             => Len(autoDecisions) < MaxHeals
          /\ probeSettles(i, alive)
    \/ \E j \in 1 .. Len(healProbes), alive \in BOOLEAN : healProbeSettles(j, alive)
    \/ /\ Len(forceChecks) < MaxForceChecks
       /\ forceHealthCheck
    \/ \E k \in 1 .. Len(forceChecks), alive \in BOOLEAN : forceProbeSettles(k, alive)

SpecForce == InitForce /\ [][NextForce]_vars

\* The router: tasks of every type are dispatched over the default
\* capabilities and over registered ones that tie with a default, outrank the
\* defaults, are disabled, or hold one task at a time, with intelligent
\* routing on or off.
RouteTypes == {"voice", "text", "code", "research", "autonomous", "custom"}

RouteOptions ==
    { [intelligentRouting |-> b, maxRetries |-> 0] : b \in BOOLEAN }

RouteRegisterInputs ==
    { [id |-> "agent-zero-2", type |-> "agent-zero", priority |-> 2,
       enabled |-> TRUE, maxConcurrent |-> 3, currentLoad |-> 0,
       successRate |-> SRScale, avgLatencyMs |-> 500 * LatScale],
      [id |-> "agent-zero-3", type |-> "agent-zero", priority |-> 9,
       enabled |-> FALSE, maxConcurrent |-> 3, currentLoad |-> 0,
       successRate |-> SRScale, avgLatencyMs |-> 500 * LatScale],
      [id |-> "mcp-1", type |-> "mcp-tool", priority |-> 9,
       enabled |-> TRUE, maxConcurrent |-> 1, currentLoad |-> 0,
       successRate |-> SRScale, avgLatencyMs |-> 500 * LatScale],
      [id |-> "personaplex-voice", type |-> "personaplex", priority |-> 1,
       enabled |-> FALSE, maxConcurrent |-> 5, currentLoad |-> 0,
       successRate |-> SRScale, avgLatencyMs |-> 100 * LatScale] }

InitRoute == \E options \in RouteOptions : InitWith(options)

NextRoute ==
    \/ start
    \/ /\ Len(tasks) < MaxTasks
       /\ \E type \in RouteTypes : submitTask(type, "input", <<>>)
    \/ /\ registrations < MaxRegistrations
       /\ \E capability \in RouteRegisterInputs : registerCapability(capability)
    \/ processTaskQueue
    \/ \E t \in activeTasks : executeTask(t, 400)
    \/ \E t \in activeTasks : handleTaskError(t)

SpecRoute == InitRoute /\ [][NextRoute]_vars

\* The decision log read back: route and heal decisions logged by dispatch
\* and by failed executions, getDecisions with limits below, at and above
\* the length of the log, and with the default limit.
DecisionLimits == {0, 1, 2, 3, 100}

InitDecisions == InitWith(<<>>)

NextDecisions ==
    \/ start
    \/ /\ Len(tasks) < MaxTasks
       /\ submitTask("code", "input", <<>>)
    \/ processTaskQueue
    \/ \E t \in activeTasks : handleTaskError(t)
    \/ \E limit \in DecisionLimits : getDecisions(limit)

SpecDecisions == InitDecisions /\ [][NextDecisions]_vars

\* The notifier: events that match a rate-limited rule, a rule added later
\* or none are triggered and direct notifications are sent while the clock
\* runs through the rate-limit and deduplication windows.
LimitedRule ==
    [id |-> "limited", eventPatterns |-> <<"x.*">>, channels |-> <<"console">>,
     minPriority |-> Undefined, rateLimit |-> <<1>>,
     template |-> << [title |-> << <<"lit", "Event">> >>,
                      body  |-> << <<"lit", "Message: ">>, <<"key", "message">> >>] >>,
     enabled |-> TRUE]

PlainRule ==
    [id |-> "plain", eventPatterns |-> <<"x.down">>, channels |-> <<"telegram">>,
     minPriority |-> "normal", rateLimit |-> <<>>, template |-> <<>>,
     enabled |-> TRUE]

NotifyOptions ==
    { [rules |-> << LimitedRule >>],
      [rules |-> << LimitedRule >>, globalRateLimitPerMinute |-> 1] }

EventNames == {"x.down", "xydown", "x.up"}

EventData == { [message |-> "m1"] }

NotifyInputs == { [priority |-> "high", channels |-> <<"slack">>] }

InitNotify ==
    /\ \E options \in NotifyOptions, resolves \in BOOLEAN :
          InitNotifier(options, resolves)
    /\ InitObservability(<<>>)
    /\ InitController(<<>>)
    /\ InitAutoConfig(<<>>)

NextNotify ==
    \/ /\ Len(history) < MaxNotifications
       /\ \E eventName \in EventNames, data \in EventData :
            triggerEvent(eventName, data)
    \/ /\ Len(history) < MaxNotifications
       /\ \E options \in NotifyInputs :
            notify(<< <<"lit", "title">> >>, << <<"lit", "body">> >>, options)
    \/ /\ Len(rules) < MaxRules
       /\ addRule(PlainRule)
    \/ removeRule("plain")
    \/ \E enabled \in BOOLEAN : setRuleEnabled("limited", enabled)
    \/ hashTimeout
    \/ cleanupRateLimits
    \/ /\ now < NotifyClock
       /\ clockAdvance

SpecNotify == InitNotify /\ [][NextNotify]_vars

\* Tracing: spans started, ended in any order, ended twice, ended by an id
\* that names no span; log entries written inside and outside spans.
SpanStatuses == {"ok", "error"}

InitTrace ==
    /\ InitController(<<>>)
    /\ InitAutoConfig(<<>>)
    /\ InitNotifier(<<>>, FALSE)
    /\ InitObservability(<<>>)

NextTrace ==
    \/ /\ Len(spans) < MaxSpans
       /\ startSpan("op")
    \/ /\ Len(metrics) < MaxMetrics
       /\ \E spanId \in 1 .. lastId, status \in SpanStatuses :
            endSpan(spanId, status)
    \/ /\ \A i \in 1 .. Len(spans) : spans[i].events = <<>>
       /\ \E spanId \in 1 .. lastId : addSpanEvent(spanId, "checkpoint")
    \/ getCurrentSpan
    \/ /\ Len(logs) < MaxLogs
       /\ info("component", "message")

SpecTrace == InitTrace /\ [][NextTrace]_vars

\* Alerts: raised by fatal, by createAlert and by a latency above the
\* threshold; acknowledged and resolved in any order, by ids that may name no
\* alert.
ObsOptions ==
    { <<>>, [logRetentionCount |-> 1], [anomalyDetection |-> FALSE] }

Latencies == {100, 6000}

InitAlerts ==
    /\ InitController(<<>>)
    /\ InitAutoConfig(<<>>)
    /\ InitNotifier(<<>>, FALSE)
    /\ \E options \in ObsOptions : InitObservability(options)

NextAlerts ==
    \/ /\ Len(alerts) < MaxAlerts
       /\ Len(logs) < MaxLogs
       /\ fatal("component", "message")
    \/ /\ Len(logs) < MaxLogs
       /\ Len(metrics) < MaxMetrics
       /\ warn("component", "message")
    \/ /\ Len(alerts) < MaxAlerts
       /\ raiseAlert("warning", <<"title">>, "message", "source")
    \/ /\ Len(alerts) < MaxAlerts
       /\ Len(metrics) < MaxMetrics
       /\ \E value \in Latencies : recordLatency(value)
    \/ \E alertId \in 1 .. lastId + 1 : acknowledgeAlert(alertId)
    \/ \E alertId \in 1 .. lastId + 1 : resolveAlert(alertId)
    \/ getActiveAlerts

SpecAlerts == InitAlerts /\ [][NextAlerts]_vars

\* Modes and tasks together: the controller is built in any mode with either
\* flag setting, modes and flags change while tasks that log decisions are
\* submitted, dispatched and settled.
GuardOptions ==
    { [mode |-> m, contentFiltering |-> b, maxRetries |-> MaxRetries] :
        m \in OperationMode, b \in BOOLEAN }

GuardUpdates == { [contentFiltering |-> b] : b \in BOOLEAN }

InitGuard == \E options \in GuardOptions : InitWith(options)

NextGuard ==
    \/ start
    \/ /\ Len(decisions) < MaxDecisions
       /\ \E mode \in OperationMode : setMode(mode)
    \/ \E updates \in GuardUpdates : updateConfig(updates)
    \/ /\ Len(tasks) < MaxTasks
       /\ submitTask("code", "input", <<>>)
    \/ processTaskQueue
    \/ \E t \in activeTasks, latency \in LatencySamples : executeTask(t, latency)
    \/ \E t \in activeTasks : handleTaskError(t)

SpecGuard == InitGuard /\ [][NextGuard]_vars

\* The mode side of the controller: config and the decision log only.
NextMode ==
    \/ /\ Len(decisions) < MaxDecisions
       /\ \E mode \in OperationMode : setMode(mode)
    \/ /\ Len(decisions) < MaxDecisions
       /\ enableUnrestrictedMode
    \/ disableGuardrails
    \/ \E updates \in ModeOptions : updateConfig(updates)

SpecMode == InitMode /\ [][NextMode]_vars

\* ============================================================ claims ====
TaskIds == 1 .. Len(tasks)

TerminalStatus == {"completed", "failed", "cancelled"}

Queued == SeqToSet(taskQueue)

Emits(events, name, payload) ==
    \E i \in 1 .. Len(events) : events[i][1] = name /\ events[i][2] = payload

\* u is ahead of t: a strictly higher class, or the same class and submitted
\* earlier (ids are generated in submission order).  A task that was put
\* back in the queue (retryCount > 0) re-enters behind its class and is not
\* counted as earlier-submitted.
Ahead(u, t) ==
    \/ priorityOrder(tasks[u].priority) < priorityOrder(tasks[t].priority)
    \/ /\ tasks[u].priority = tasks[t].priority
       /\ u < t
       /\ tasks[u].retryCount = 0

\* C1: the dispatch loop never dispatches a task while a task of a strictly
\* higher class, or an earlier-submitted task of the same class, is still
\* waiting in the queue.
C1_DispatchInPriorityFifoOrder ==
    [][\A t \in TaskIds :
          (t \notin activeTasks /\ t \in activeTasks')
          => \A u \in Queued \ {t} :
                tasks[u].status = "queued" => ~Ahead(u, t)]_vars

\* C2 as stated: in every reachable state the active set holds at most
\* maxConcurrentTasks tasks.
C2_ActiveWithinCap == Cardinality(activeTasks) <= config.maxConcurrentTasks

\* C2 amended: a step admits a task only when the active set holds fewer than
\* maxConcurrentTasks tasks, it admits exactly one, and every step that does
\* not lower maxConcurrentTasks keeps the active set within the cap.
C2_DispatchRespectsCap ==
    [][/\ Cardinality(activeTasks') > Cardinality(activeTasks)
          => /\ Cardinality(activeTasks) < config.maxConcurrentTasks
             /\ Cardinality(activeTasks') = Cardinality(activeTasks) + 1
       /\ (/\ Cardinality(activeTasks) <= config.maxConcurrentTasks
           /\ config'.maxConcurrentTasks >= config.maxConcurrentTasks)
          => Cardinality(activeTasks') <= config'.maxConcurrentTasks]_vars

\* C2 witness: a tick has just found the active set full and left a task waiting
C2_FullTickSkipped ==
    /\ Cardinality(activeTasks) = config.maxConcurrentTasks
    /\ taskQueue # <<>>
    /\ emitted = <<>>
    /\ ret = <<>>

FailedByExecutor(t) ==
    tasks[t].status = "failed" /\ tasks[t].error = "executor error"

\* C3 as stated: a task whose executor threw on every attempt and that ended
\* failed was started exactly maxRetries + 1 times and re-queued by
\* handleTaskError exactly maxRetries times.
C3_ExactlyNPlusOneAttempts ==
    \A t \in TaskIds :
        FailedByExecutor(t)
        => /\ attempts[t].started = tasks[t].maxRetries + 1
           /\ attempts[t].retried = tasks[t].maxRetries

\* C3 amended: a task is started at most maxRetries + 1 times; retryCount is
\* the number of execution retries plus the number of no-capability
\* re-queues; a task failed by its executor was started exactly
\* maxRetries + 1 minus its no-capability re-queues times and re-queued by
\* handleTaskError one time less than it was started.
C3_AttemptsShareRetryBudget ==
    \A t \in TaskIds :
        /\ attempts[t].started <= tasks[t].maxRetries + 1
        /\ tasks[t].retryCount = attempts[t].retried + attempts[t].requeued
        /\ FailedByExecutor(t)
           => /\ attempts[t].started + attempts[t].requeued = tasks[t].maxRetries + 1
              /\ attempts[t].retried = attempts[t].started - 1
              /\ tasks[t].retryCount = tasks[t].maxRetries

\* C3 witness: a task with maxRetries >= 1 failed by its executor after
\* maxRetries + 1 starts
C3_FailedAfterAllRetries ==
    \E t \in TaskIds :
        /\ FailedByExecutor(t)
        /\ tasks[t].maxRetries >= 1
        /\ attempts[t].started = tasks[t].maxRetries + 1

\* C4: each capability's currentLoad equals the number of active-set tasks
\* dispatched to it and is never negative.
C4_LoadCountsActiveTasks ==
    \A c \in 1 .. Len(capObjs) :
        /\ capObjs[c].currentLoad = Cardinality({t \in activeTasks : execCap[t] = c})
        /\ capObjs[c].currentLoad >= 0

\* C5: once a task's status is cancelled it stays cancelled in every later
\* state.
C5_CancelledStaysCancelled ==
    [][\A t \in TaskIds :
          tasks[t].status = "cancelled" => tasks'[t].status = "cancelled"]_vars

\* C6: cancelTask(id) returns true, sets the status to cancelled and emits
\* task_cancelled exactly when the task is found and its status is not
\* completed, failed or cancelled; otherwise it returns false, emits nothing
\* and changes nothing.
C6_CancelTaskOnlyNonTerminal ==
    [][\A taskId \in CancelIds :
          cancelTask(taskId)
          => IF getTask(taskId) # 0 /\ tasks[taskId].status \notin TerminalStatus
             THEN /\ ret' = <<"cancelTask", TRUE>>
                  /\ tasks'[taskId].status = "cancelled"
                  /\ Emits(emitted', "task_cancelled", taskId)
             ELSE /\ ret' = <<"cancelTask", FALSE>>
                  /\ emitted' = <<>>
                  /\ tasks' = tasks]_vars

\* C7: after a task has reached status failed, getTask(id) returns that task
\* with status failed and its error message.
C7_FailedTaskStaysVisible ==
    \A t \in TaskIds :
        tasks[t].status = "failed"
        => getTask(t) = t /\ tasks[getTask(t)].error # Undefined

\* no capability is enabled, under capacity and type-compatible with task t
NoEligibleCapability(t) ==
    \A c \in SeqToSet(capabilities) :
        ~(/\ capObjs[c].enabled
          /\ capObjs[c].currentLoad < capObjs[c].maxConcurrent
          /\ capObjs[c].type \in typeMapping(tasks[t].type))

\* C8: when the dispatch loop pops a task with no eligible capability whose
\* retryCount equals its maxRetries, the task becomes failed with error
\* 'No capable agent available', task_failed is emitted, and the task is in
\* neither the queue nor the active set.
C8_NoCapabilityExhaustedFails ==
    [][\A t \in TaskIds :
          (/\ processTaskQueue
           /\ Cardinality(activeTasks) < config.maxConcurrentTasks
           /\ taskQueue # <<>>
           /\ Head(taskQueue) = t
           /\ NoEligibleCapability(t)
           /\ tasks[t].retryCount = tasks[t].maxRetries)
          => /\ tasks'[t].status = "failed"
             /\ tasks'[t].error = "No capable agent available"
             /\ Emits(emitted', "task_failed", t)
             /\ t \notin SeqToSet(taskQueue')
             /\ t \notin activeTasks']_vars

\* C8 witness: a task submitted with maxRetries = 0 has just been failed by
\* the dispatch loop for want of a capability
C8_FailedForNoCapability ==
    \E t \in TaskIds :
        /\ tasks[t].status = "failed"
        /\ tasks[t].error = "No capable agent available"
        /\ tasks[t].maxRetries = 0
        /\ attempts[t].started = 0
        /\ Emits(emitted, "task_failed", t)
        /\ getTask(t) = 0

C10_ModeDeterminesFlags ==
    /\ config.mode = "supervised"
       => config.contentFiltering /\ config.safetyGuardrails
    /\ config.mode = "unrestricted"
       => ~config.contentFiltering /\ ~config.safetyGuardrails

\* C11: every setMode('autonomous') call, whatever the mode before it, leaves
\* the controller in autonomous mode with contentFiltering and
\* safetyGuardrails both false.
C11_AutonomousFlagsOff ==
    [][\A previousMode \in OperationMode :
          Emits(emitted', "mode_changed", <<previousMode, "autonomous">>)
          => /\ config'.mode = "autonomous"
             /\ ~config'.contentFiltering
             /\ ~config'.safetyGuardrails]_vars

\* the step is a submitTask call that created task id
Submitted(id) ==
    /\ Len(tasks') = Len(tasks) + 1
    /\ id = Len(tasks')
    /\ ret' = <<"submitTask", id>>

FilteredOut(task) ==
    task.status = "cancelled" /\ task.error = "Content filtered by guardrails"

TimedOut(task) ==
    task.status = "failed" /\ task.error = "Task timeout in queue"

\* C13: a health-monitor tick marks failed with error 'Task timeout in
\* queue', emits task_timeout for, and removes from the queue every queued
\* task whose age at the tick exceeds taskTimeoutMs; it leaves every task of
\* the active set as it was, whatever its age; and a task failed by queue
\* timeout never changes again: it is not queued, retried or dispatched.
C13_StaleQueuedTasksEvicted ==
    [][/\ (\E drift \in 0 .. 1 : monitorHealth(drift))
          => /\ \A t \in Queued :
                  now - tasks[t].createdAt > config.taskTimeoutMs
                  => /\ TimedOut(tasks'[t])
                     /\ Emits(emitted', "task_timeout", t)
                     /\ t \notin SeqToSet(taskQueue')
                     /\ t \notin activeTasks'
             /\ \A t \in activeTasks :
                  /\ tasks'[t] = tasks[t]
                  /\ t \in activeTasks'
                  /\ ~Emits(emitted', "task_timeout", t)
       /\ \A t \in TaskIds :
            TimedOut(tasks[t])
            => /\ tasks'[t] = tasks[t]
               /\ attempts'[t] = attempts[t]
               /\ t \notin SeqToSet(taskQueue')
               /\ t \notin activeTasks']_vars

\* C13 witness: a health tick has just evicted a stale queued task while an
\* active task at least as old keeps running
C13_EvictedBesideOldActive ==
    \E t \in TaskIds, a \in activeTasks :
        /\ TimedOut(tasks[t])
        /\ Emits(emitted, "task_timeout", t)
        /\ Emits(emitted, "health_check", Undefined)
        /\ t \notin Queued
        /\ tasks[a].createdAt <= tasks[t].createdAt
        /\ now - tasks[a].createdAt > config.taskTimeoutMs
        /\ tasks[a].status = "running"

\* C14: in every reachable state, for every task, completedAt is set if and
\* only if the task's status is completed, failed or cancelled.
C14_CompletedAtIffTerminal ==
    \A t \in TaskIds :
        tasks[t].completedAt <=> tasks[t].status \in TerminalStatus

\* C15: in every reachable state every task satisfies
\* retryCount <= maxRetries, retryCount being the number of no-capability
\* re-queues plus the number of execution-failure retries.
C15_RetryCountWithinMax ==
    \A t \in TaskIds :
        /\ tasks[t].retryCount <= tasks[t].maxRetries
        /\ tasks[t].retryCount = attempts[t].requeued + attempts[t].retried

\* C15 witness: one task has used its retry budget on a no-capability
\* re-queue, another on an execution retry and has since failed for good
C15_BudgetUsedBothWays ==
    \E t \in TaskIds, u \in TaskIds :
        /\ attempts[t].requeued >= 1
        /\ tasks[t].retryCount = tasks[t].maxRetries
        /\ attempts[u].retried >= 1
        /\ tasks[u].retryCount = tasks[u].maxRetries
        /\ FailedByExecutor(u)

\* C16: in every reachable state no task is both in the queue and in the
\* active set, and no task appears twice in the queue.
C16_QueueAndActiveDisjoint ==
    /\ Queued \cap activeTasks = {}
    /\ \A i \in 1 .. Len(taskQueue), j \in 1 .. Len(taskQueue) :
          taskQueue[i] = taskQueue[j] => i = j

\* C16 witness: a task that was dispatched and put back by handleTaskError
\* waits in the queue behind a task that was put back for want of a
\* capability, while the health monitor has just run
C16_RequeuedBothWays ==
    /\ Len(taskQueue) = 2
    /\ attempts[taskQueue[1]].requeued >= 1
    /\ attempts[taskQueue[2]].retried >= 1
    /\ Emits(emitted, "health_check", Undefined)

\* successRate, in millionths, after k consecutive failures from 1.0
RECURSIVE RateAfter(_)
RateAfter(k) == IF k = 0 THEN SRScale ELSE (RateAfter(k - 1) * 9) \div 10

\* executions started on behalf of tasks 1 .. n
RECURSIVE StartedUpTo(_)
StartedUpTo(n) ==
    IF n = 0 THEN 0 ELSE attempts[n].started + StartedUpTo(n - 1)

\* executions that have settled; under SpecDecay each of them failed
Settled == StartedUpTo(Len(tasks)) - Cardinality(activeTasks)

NeverDisabled ==
    \A i \in 1 .. Len(decisions) :
        decisions[i].reason # "Disabled underperforming capability"

\* C17: each failed execution multiplies the capability's successRate by 0.9
\* and strictly decreases it; starting from 1.0, after k consecutive failures
\* the rate is 0.9^k, which is below 0.5 from the 7th failure on and not
\* earlier; and with self-healing enabled a health-monitor tick sets enabled
\* to false on every registered capability whose rate is below 0.5.
C17_SuccessRateDecay ==
    [][/\ \A t \in activeTasks :
            handleTaskError(t)
            => /\ capObjs'[execCap[t]].successRate
                    = (capObjs[execCap[t]].successRate * 9) \div 10
               /\ capObjs'[execCap[t]].successRate
                    < capObjs[execCap[t]].successRate
       /\ NeverDisabled'
          => /\ capObjs'[1].successRate = RateAfter(Settled')
             /\ capObjs'[1].successRate * 2 < SRScale <=> Settled' >= 7
       /\ (monitorHealth(0) /\ config.selfHealing)
          => \A c \in SeqToSet(capabilities) :
                capObjs[c].successRate * 2 < SRScale
                => /\ ~capObjs'[c].enabled
                   /\ capObjs'[c].successRate = capObjs[c].successRate]_vars

\* C17 witness: the health monitor has just disabled the voice capability
\* after exactly seven failed executions in a row
C17_DisabledAfterSeventhFailure ==
    /\ Settled = 7
    /\ capObjs[1].successRate = RateAfter(7)
    /\ capObjs[1].successRate * 2 < SRScale
    /\ RateAfter(6) * 2 >= SRScale
    /\ ~capObjs[1].enabled
    /\ Len(decisions) > 0
    /\ decisions[Len(decisions)].reason = "Disabled underperforming capability"
    /\ Emits(emitted, "health_check", Undefined)

\* C18: the decision log only grows; every decision appended by a step has
\* executed = true and requiresApproval = false unless the controller's mode
\* when it was logged was supervised, in which case executed = false and
\* requiresApproval = true; so in every logged decision executed is the
\* negation of requiresApproval.
C18_ExecutedUnlessSupervised ==
    [][/\ Len(decisions') >= Len(decisions)
       /\ SubSeq(decisions', 1, Len(decisions)) = decisions
       /\ \A i \in (Len(decisions) + 1) .. Len(decisions') :
            /\ decisions'[i].executed <=> config'.mode # "supervised"
            /\ decisions'[i].requiresApproval <=> config'.mode = "supervised"
       /\ \A i \in 1 .. Len(decisions') :
            decisions'[i].executed <=> ~decisions'[i].requiresApproval]_vars

\* C18 witness: the log holds a routing decision made for a task under
\* supervised mode, awaiting approval, and a heal decision made for a retry
\* under another mode, executed
C18_ApprovalOnlyUnderSupervised ==
    \E i \in 1 .. Len(decisions), j \in 1 .. Len(decisions) :
        /\ decisions[i].reason = "Autonomous task routing"
        /\ decisions[i].requiresApproval
        /\ ~decisions[i].executed
        /\ decisions[j].reason = "Task retry with different capability"
        /\ decisions[j].executed
        /\ ~decisions[j].requiresApproval

\* the registry's entries, in Map order
Entry(objs, svcs, i) == objs[svcs[i]]

Registers == \E service \in ServiceInputs : registerService(service)

\* C19: a registerService call leaves exactly one entry under the
\* service's id, carrying the id, name and url of this call with status
\* unknown and lastCheck cleared whatever the caller supplied, leaves the
\* entries of other ids as they were, and emits exactly one config_changed
\* config-event for the new endpoint, also when the id was registered
\* before; no two entries ever share an id; and no other step adds, removes
\* or re-identifies an entry.
C19_RegisterServiceUpserts ==
    [][/\ \A service \in ServiceInputs :
            registerService(service)
            => /\ Cardinality({i \in 1 .. Len(services') :
                      Entry(svcObjs', services', i).id = service.id}) = 1
               /\ \A i \in 1 .. Len(services') :
                     Entry(svcObjs', services', i).id = service.id
                     => /\ Entry(svcObjs', services', i).name = service.name
                        /\ Entry(svcObjs', services', i).url = service.url
                        /\ Entry(svcObjs', services', i).status = "unknown"
                        /\ Entry(svcObjs', services', i).lastCheck = <<>>
                        /\ autoEmitted'
                             = << Ev("config_event",
                                     <<"config_changed", services'[i]>>) >>
               /\ \A i \in 1 .. Len(services) :
                     Entry(svcObjs, services, i).id # service.id
                     => /\ services'[i] = services[i]
                        /\ Entry(svcObjs', services', i) = Entry(svcObjs, services, i)
               /\ Len(services') = Len(services)
                     + (IF \E i \in 1 .. Len(services) :
                              Entry(svcObjs, services, i).id = service.id
                        THEN 0 ELSE 1)
       /\ \A i \in 1 .. Len(services'), j \in 1 .. Len(services') :
            Entry(svcObjs', services', i).id = Entry(svcObjs', services', j).id
            => i = j
       /\ ~Registers
          => /\ services' = services
             /\ \A i \in 1 .. Len(services) :
                   /\ Entry(svcObjs', services, i).id = Entry(svcObjs, services, i).id
                   /\ Entry(svcObjs', services, i).name = Entry(svcObjs, services, i).name
                   /\ Entry(svcObjs', services, i).url = Entry(svcObjs, services, i).url]_vars

\* C19 witness: an id registered, probed healthy, and registered again with
\* another url has one entry, with the second url, status unknown and no
\* lastCheck
C19_ReRegisteredOnce ==
    /\ Len(svcObjs) = 2
    /\ svcObjs[1].id = svcObjs[2].id
    /\ svcObjs[1].status = "healthy"
    /\ svcObjs[1].url # svcObjs[2].url
    /\ services = <<2>>
    /\ svcObjs[2].status = "unknown"
    /\ svcObjs[2].lastCheck = <<>>
    /\ autoEmitted = << ConfigEvent("config_changed", 2) >>

Notifying(s) ==
    \E i \in 1 .. Len(cycles) : cycles[i].pc = "notifying" /\ cycles[i].svc = s

NotifiedDown(events, objs, s) ==
    /\ s \in DOMAIN objs
    /\ Emits(events, "notification", <<"service_down", s, objs[s].name, objs[s].url>>)

C21_HealedWhateverAutoHeal ==
    [][\A i \in 1 .. Len(cycles) :
          (probeSettles(i, TRUE) /\ ~cycles[i].wasHealthy)
          => /\ svcObjs'[cycles[i].svc].status \in {"healthy", "checking"}
             /\ Emits(autoEmitted', "config_event", <<"healed", cycles[i].svc>>)
             /\ IF autoOptions.autoHeal
                THEN /\ Len(autoDecisions') = Len(autoDecisions) + 1
                     /\ autoDecisions'[Len(autoDecisions')].type = "heal"
                     /\ autoDecisions'[Len(autoDecisions')].service
                          = svcObjs[cycles[i].svc].id
                ELSE autoDecisions' = autoDecisions]_vars

\* the step is a dispatch tick that handed task t to a capability
Dispatched(t) ==
    /\ processTaskQueue
    /\ t \notin activeTasks
    /\ t \in activeTasks'

\* the documented primary capability of each task type
PrimaryCapability(type) ==
    CASE type = "voice"      -> "personaplex-voice"
      [] type = "text"       -> "agent-zero-auto"
      [] type = "code"       -> "agent-zero-auto"
      [] type = "research"   -> "poke-research"
      [] type = "autonomous" -> "agent-zero-auto"

\* C22: with only the three default capabilities registered, all idle and
\* with their initial statistics, a dispatch tick assigns a voice task to
\* personaplex-voice, a text, code or autonomous task to agent-zero-auto,
\* and a research task to poke-research.
C22_DefaultRouting ==
    [][\A t \in TaskIds :
          (/\ Dispatched(t)
           /\ capObjs = DefaultCapabilities
           /\ capabilities = <<1, 2, 3>>
           /\ tasks[t].type # "custom")
          => tasks'[t].assignedTo = PrimaryCapability(tasks[t].type)]_vars

\* notifications of rule ruleId in hist delivered in the window that ends at t
DeliveredInWindow(hist, ruleId, t) ==
    { h \in 1 .. Len(hist) :
        /\ hist[h].ruleId = ruleId
        /\ hist[h].delivered
        /\ hist[h].deliveredAt[1] > t - windowMs
        /\ hist[h].deliveredAt[1] <= t }

Unended(all) == { i \in 1 .. Len(all) : all[i].endTime = <<>> }

\* the most recently started of them
LatestUnended(all) ==
    CHOOSE i \in Unended(all) : \A j \in Unended(all) : j <= i

\* C24: getCurrentSpan returns the most recently started span that has not
\* been ended, undefined when there is none; a span started while another
\* is current gets that span's spanId as parentSpanId and its traceId, and
\* one started with no current span gets no parent and a traceId of its own;
\* the active set holds exactly the spans not ended, whatever the order in
\* which they were ended.
C24_CurrentSpan ==
    [][/\ obsRet' # <<>> /\ obsRet'[1] = "getCurrentSpan"
          => obsRet'[2] = IF Unended(spans') = {} THEN <<>>
                          ELSE << spans'[LatestUnended(spans')].spanId >>
       /\ Len(spans') = Len(spans) + 1
          => LET span == spans'[Len(spans')]
             IN  /\ span.endTime = <<>>
                 /\ IF Unended(spans) = {}
                    THEN /\ span.parentSpanId = <<>>
                         /\ \A i \in 1 .. Len(spans) :
                              spans[i].traceId # span.traceId
                    ELSE /\ span.parentSpanId
                              = << spans[LatestUnended(spans)].spanId >>
                         /\ span.traceId = spans[LatestUnended(spans)].traceId
       /\ { activeSpans'[k] : k \in 1 .. Len(activeSpans') }
             = { spans'[i].spanId : i \in Unended(spans') }]_vars

\* the first of three spans was ended while the second, its child, was
\* active; the third was started under the second and ended; the second is
\* current
C24_EndedOutOfOrder ==
    /\ Len(spans) = 3
    /\ spans[1].endTime # <<>>
    /\ spans[2].endTime = <<>>
    /\ spans[3].endTime # <<>>
    /\ spans[2].parentSpanId = << spans[1].spanId >>
    /\ spans[3].parentSpanId = << spans[2].spanId >>
    /\ spans[3].traceId = spans[1].traceId
    /\ obsRet = <<"getCurrentSpan", << spans[2].spanId >> >>

\* the ids of the alerts of all that carry no resolvedAt
UnresolvedIds(all) ==
    { all[i].id : i \in { j \in 1 .. Len(all) : all[j].resolvedAt = <<>> } }

\* C25: fatal records the log entry and creates exactly one alert, critical,
\* unacknowledged and unresolved; acknowledgeAlert sets acknowledged and
\* leaves the alert in what getActiveAlerts returns; resolveAlert takes it
\* out; a resolved alert is never returned by getActiveAlerts again.
C25_FatalAndAlertLifecycle ==
    [][/\ (\E k \in 1 .. Len(obsEmitted') : obsEmitted'[k] = Ev("log", "fatal"))
          => /\ logs' # <<>>
             /\ logs'[Len(logs')].level = "fatal"
             /\ logs'[Len(logs')].component = "component"
             /\ logs'[Len(logs')].message = "message"
             /\ Len(alerts') = Len(alerts) + 1
             /\ SubSeq(alerts', 1, Len(alerts)) = alerts
             /\ alerts'[Len(alerts')].severity = "critical"
             /\ alerts'[Len(alerts')].source = "component"
             /\ ~alerts'[Len(alerts')].acknowledged
             /\ alerts'[Len(alerts')].resolvedAt = <<>>
       /\ \A i \in 1 .. Len(alerts) :
            /\ obsEmitted' = << Ev("alert_acknowledged", alerts[i].id) >>
               => /\ alerts'[i].acknowledged
                  /\ alerts'[i].resolvedAt = alerts[i].resolvedAt
            /\ obsEmitted' = << Ev("alert_resolved", alerts[i].id) >>
               => alerts'[i].resolvedAt # <<>>
            /\ alerts[i].resolvedAt # <<>>
               => /\ alerts'[i].id = alerts[i].id
                  /\ alerts'[i].resolvedAt # <<>>
       /\ obsRet' # <<>> /\ obsRet'[1] = "getActiveAlerts"
          => { obsRet'[2][k] : k \in 1 .. Len(obsRet'[2]) }
                = UnresolvedIds(alerts')]_vars

\* of two alerts raised by fatal, the first was acknowledged and the second
\* resolved; getActiveAlerts returned the first alone
C25_AcknowledgedStillActive ==
    /\ Len(alerts) = 2
    /\ Len(logs) = 2
    /\ alerts[1].severity = "critical"
    /\ alerts[2].severity = "critical"
    /\ alerts[1].acknowledged
    /\ alerts[1].resolvedAt = <<>>
    /\ alerts[2].resolvedAt # <<>>
    /\ obsRet = <<"getActiveAlerts", << alerts[1].id >> >>

\* the queue q of task records all is ordered by priority class
ClassOrdered(q, all) ==
    \A i, j \in 1 .. Len(q) :
        i < j => priorityOrder(all[q[i]].priority)
                    <= priorityOrder(all[q[j]].priority)

\* C26: a tick that pops a task, finds no capability for it and puts it
\* back raises its retryCount by one, leaves it queued, and puts it behind
\* every queued task of its class and ahead of every queued task of a lower
\* class; the queue is ordered by priority class after every step.
C26_RequeueAtBackOfClass ==
    [][/\ (/\ taskQueue # <<>>
           /\ tasks[Head(taskQueue)].status = "queued"
           /\ tasks'[Head(taskQueue)].retryCount
                 = tasks[Head(taskQueue)].retryCount + 1
           /\ Head(taskQueue) \in SeqToSet(taskQueue'))
          => LET t  == Head(taskQueue)
                 at == FindIndex([i \in 1 .. Len(taskQueue') |-> taskQueue'[i] = t])
             IN  /\ tasks'[t].status = "queued"
                 /\ \A i \in 1 .. Len(taskQueue') :
                      LET u == taskQueue'[i]
                      IN  /\ (u # t /\ tasks'[u].priority = tasks'[t].priority)
                             => i < at
                          /\ priorityOrder(tasks'[u].priority)
                                > priorityOrder(tasks'[t].priority)
                             => at < i
       /\ ClassOrdered(taskQueue', tasks')]_vars

\* the tick has popped the queued task t: it was at the head of the queue
\* and the step started, re-queued or failed it
Popped(t) ==
    /\ taskQueue # <<>>
    /\ Head(taskQueue) = t
    /\ tasks[t].status = "queued"
    /\ \/ tasks'[t].status # "queued"
       \/ tasks'[t].retryCount # tasks[t].retryCount

\* the capability object c passes the router's three filters for task t
PassesFilters(c, t) ==
    /\ capObjs[c].enabled
    /\ capObjs[c].currentLoad < capObjs[c].maxConcurrent
    /\ capObjs[c].type \in typeMapping(tasks[t].type)

\* C27: a tick assigns the popped task to a registered capability that is
\* enabled, has currentLoad < maxConcurrent and whose type is in the
\* allow-list of the task's type, all read before the step; it assigns the
\* task to none exactly when no registered capability passes the three
\* filters; and no capability object's currentLoad exceeds its maxConcurrent.
C27_RouterFilters ==
    [][/\ \A t \in TaskIds :
            Popped(t)
            => /\ t \in activeTasks'
                  <=> \E c \in SeqToSet(capabilities) : PassesFilters(c, t)
               /\ t \in activeTasks'
                  => /\ execCap'[t] \in SeqToSet(capabilities)
                     /\ PassesFilters(execCap'[t], t)
                     /\ tasks'[t].assignedTo = capObjs[execCap'[t]].id
                     /\ capObjs'[execCap'[t]].currentLoad
                           = capObjs[execCap'[t]].currentLoad + 1
       /\ \A c \in 1 .. Len(capObjs') :
            capObjs'[c].currentLoad <= capObjs'[c].maxConcurrent]_vars

\* a text task went to poke-research because mcp-1, which scores higher,
\* was full with the first text task, and the disabled agent-zero-3 got none
C27_FullCapabilitySkipped ==
    \E t, u \in TaskIds, c, d \in SeqToSet(capabilities) :
        /\ t # u
        /\ tasks[t].type = "text" /\ tasks[u].type = "text"
        /\ tasks[t].status = "running" /\ tasks[u].status = "running"
        /\ capObjs[c].id = "mcp-1" /\ execCap[t] = c
        /\ capObjs[c].currentLoad = capObjs[c].maxConcurrent
        /\ capObjs[d].id = "poke-research" /\ execCap[u] = d
        /\ Emits(emitted, "task_started", u)

\* priority*10 + successRate*5 - avgLatencyMs/1000 - currentLoad of the
\* capability object c, in millionths
ScoreOf(c) ==
    capObjs[c].priority * 10 * SRScale + capObjs[c].successRate * 5
        - capObjs[c].avgLatencyMs - capObjs[c].currentLoad * SRScale

\* the position of the capability object c in the Map's iteration order
MapPosition(c) ==
    FindIndex([i \in 1 .. Len(capabilities) |-> capabilities[i] = c])

\* C28: the capability a tick assigns the popped task to has the highest
\* score among the registered capabilities that pass the filters, and comes
\* first in the Map's iteration order among those that share that score.
C28_HighestScoreWins ==
    [][\A t \in TaskIds :
          (Popped(t) /\ t \in activeTasks')
          => \A c \in SeqToSet(capabilities) :
                (PassesFilters(c, t) /\ c # execCap'[t])
                => \/ ScoreOf(c) < ScoreOf(execCap'[t])
                   \/ /\ ScoreOf(c) = ScoreOf(execCap'[t])
                      /\ MapPosition(execCap'[t]) < MapPosition(c)]_vars

\* a tick has just assigned a task to agent-zero-auto although agent-zero-2,
\* registered later, had the same score: the scores now differ by the load
C28_TieGoesToEarlier ==
    \E t \in TaskIds, c, d \in SeqToSet(capabilities) :
        /\ Emits(emitted, "task_started", t)
        /\ execCap[t] = c
        /\ capObjs[c].id = "agent-zero-auto"
        /\ capObjs[d].id = "agent-zero-2"
        /\ MapPosition(c) < MapPosition(d)
        /\ ScoreOf(d) = ScoreOf(c) + SRScale

\* the decisions the step has added to the log that selectCapability made
NewRouterDecisions ==
    LET ByRouter(d) == d.reason = "Selected capability for task"
    IN  SelectSeq(SubSeq(decisions', Len(decisions) + 1, Len(decisions')),
                  ByRouter)

\* the ids of the registered capabilities that pass the filters for task t
FilteredIds(t) ==
    { capObjs[c].id : c \in { d \in SeqToSet(capabilities) : PassesFilters(d, t) } }

\* the one router decision of the step names the candidates of t and the
\* capability t was assigned to
RecordsSelection(t) ==
    /\ Len(NewRouterDecisions) = 1
    /\ NewRouterDecisions[1].type = "route"
    /\ SeqToSet(NewRouterDecisions[1].candidates) = FilteredIds(t)
    /\ Len(NewRouterDecisions[1].candidates) = Cardinality(FilteredIds(t))
    /\ NewRouterDecisions[1].selected = tasks'[t].assignedTo

\* C29 as stated: a router selection logs a route decision with all
\* candidate ids and the selected id if more than one capability passes the
\* filters, and logs none when one or none passes.
C29_RouteDecisionLogged ==
    [][\A t \in TaskIds :
          Popped(t)
          => IF Cardinality(FilteredIds(t)) > 1
             THEN RecordsSelection(t)
             ELSE NewRouterDecisions = <<>>]_vars

\* C29 amended: the route decision is logged if intelligentRouting is on
\* and more than one capability passes the filters; with intelligentRouting
\* off, or with one candidate or none, the router logs no decision.
C29_RouteDecisionWhenIntelligent ==
    [][\A t \in TaskIds :
          Popped(t)
          => IF config.intelligentRouting /\ Cardinality(FilteredIds(t)) > 1
             THEN RecordsSelection(t)
             ELSE NewRouterDecisions = <<>>]_vars

\* the last decision in the log is the router's, over two or more
\* candidates, for the task just started on the selected capability
C29_SelectionRecorded ==
    /\ decisions # <<>>
    /\ \E i \in 1 .. Len(decisions), t \in TaskIds :
         /\ decisions[i].reason = "Selected capability for task"
         /\ Len(decisions[i].candidates) >= 2
         /\ decisions[i].selected = decisions[i].candidates[1]
         /\ Emits(emitted, "task_started", t)
         /\ Emits(emitted, "decision", "route")
         /\ tasks[t].assignedTo = decisions[i].selected

\* C30: a capability the monitor disables has the full cooldown ahead of
\* it: no re-enable timer for it is pending that is due earlier than the
\* one armed with the disable; a capability is re-enabled by the timer due
\* at that time and with successRate 0.7; and a re-enable timer that fires
\* finds its capability disabled.
C30_FullCooldownEveryEpisode ==
    [][\A c \in 1 .. Len(capObjs) :
          /\ (capObjs[c].enabled /\ ~capObjs'[c].enabled)
             => /\ \E k \in 1 .. Len(cooldowns') :
                     /\ cooldowns'[k].cap = c
                     /\ cooldowns'[k].due = now + CooldownMs
                /\ \A k \in 1 .. Len(cooldowns') :
                     cooldowns'[k].cap = c
                     => cooldowns'[k].due >= now + CooldownMs
          /\ (~capObjs[c].enabled /\ capObjs'[c].enabled)
             => /\ capObjs'[c].successRate = (SRScale * 7) \div 10
                /\ cooldowns # <<>>
                /\ Head(cooldowns).cap = c
                /\ Head(cooldowns).due = now
          /\ (/\ cooldowns # <<>>
              /\ cooldowns' = Tail(cooldowns)
              /\ Head(cooldowns).cap = c)
             => ~capObjs[c].enabled]_vars

\* C31: getDecisions(limit) returns the last min(limit, length of the log)
\* decisions in log order, for every limit >= 0, and leaves the log as it
\* was.
C31_GetDecisionsMostRecent ==
    [][\A limit \in DecisionLimits :
          getDecisions(limit)
          => LET n == IF limit < Len(decisions) THEN limit ELSE Len(decisions)
             IN  /\ decisions' = decisions
                 /\ Len(ret'[2]) = n
                 /\ \A i \in 1 .. n :
                      ret'[2][i] = decisions[Len(decisions) - n + i]]_vars

\* health-check callback i, which was at Map position pos, has gone on: it
\* probes the endpoint at the next position, or has ended after the last
WentOn(i, pos) ==
    IF pos < Len(services)
    THEN /\ Len(cycles') = Len(cycles)
         /\ cycles'[i].pos = pos + 1
         /\ cycles'[i].pc = "probing"
         /\ cycles'[i].svc = services[pos + 1]
         /\ svcObjs'[services[pos + 1]].status = "checking"
    ELSE cycles' = RemoveAt(cycles, i)

\* C33: when the probe awaited by a health-check callback fails, the
\* endpoint becomes unhealthy with lastCheck set to the time of the
\* failure, and the callback goes on with the remaining endpoints: at once,
\* or, for an endpoint that was healthy and with a webhook configured, when
\* the webhook request has settled.
C33_FailedProbeIsContained ==
    [][\A i \in 1 .. Len(cycles) :
          /\ probeSettles(i, FALSE)
             => /\ svcObjs'[cycles[i].svc].status = "unhealthy"
                /\ svcObjs'[cycles[i].svc].lastCheck = << now >>
                /\ IF cycles[i].wasHealthy /\ autoOptions.notificationWebhook
                   THEN /\ Len(cycles') = Len(cycles)
                        /\ cycles'[i].pc = "notifying"
                        /\ cycles'[i].pos = cycles[i].pos
                   ELSE WentOn(i, cycles[i].pos)
          /\ (\E delivered \in BOOLEAN : webhookSettles(i, delivered))
             => WentOn(i, cycles[i].pos)]_vars

\* the probe of the first of two endpoints has failed and the same callback
\* is probing the second
C33_NextEndpointProbed ==
    \E i \in 1 .. Len(cycles) :
        /\ Len(services) = 2
        /\ cycles[i].pos = 2
        /\ cycles[i].pc = "probing"
        /\ svcObjs[services[1]].status = "unhealthy"
        /\ svcObjs[services[1]].lastCheck # <<>>
        /\ svcObjs[services[2]].status = "checking"
        /\ Len(cycles) = 1

\* C35: every task accepted by submitTask is in the queue, in the active
\* set, or in a terminal status (completed, failed, cancelled); no task
\* leaves both collections while its status is still queued or running.
C35_NoTaskDropped ==
    \A t \in DOMAIN tasks :
        \/ t \in SeqToSet(taskQueue)
        \/ t \in activeTasks
        \/ tasks[t].status \in {"completed", "failed", "cancelled"}

\* C37: while the controller is stopped, the dispatch tick, the health
\* monitor and the monitor's re-enable timer change no task, no queue and no
\* capability.
C37_QuietWhenStopped ==
    [][(/\ ~isRunning
        /\ processTaskQueue \/ monitorHealth(0) \/ cooldownTimeout)
       => /\ tasks' = tasks
          /\ taskQueue' = taskQueue
          /\ capObjs' = capObjs]_vars

Terminal(status) == status \in {"completed", "failed", "cancelled"}

\* C36: with finitely many tasks submitted, executor calls that settle, and
\* the dispatch and health ticks firing, eventually and from then on every
\* submitted task has a terminal status and the queue and the active set are
\* empty.
C36_EveryTaskTerminates ==
    <>[](/\ taskQueue = <<>>
         /\ activeTasks = {}
         /\ \A t \in DOMAIN tasks : Terminal(tasks[t].status))

\* a probe of endpoint object s is awaited by a health-check callback or by
\* an executed heal decision
ProbeInFlight(s) ==
    \/ \E i \in 1 .. Len(cycles) : cycles[i].svc = s /\ cycles[i].pc = "probing"
    \/ \E j \in 1 .. Len(healProbes) : healProbes[j] = s

\* the moves of the status state machine
AllowedMove(from, to) ==
    \/ from \in {"unknown", "healthy", "unhealthy"} /\ to = "checking"
    \/ from = "checking" /\ to \in {"healthy", "unhealthy"}

\* C34: an endpoint's status changes only from unknown, healthy or unhealthy
\* to checking and from checking to healthy or unhealthy; it is never
\* degraded; and it is checking only while a probe of the endpoint is in
\* flight.
C34_StatusStateMachine ==
    [][\A s \in 1 .. Len(svcObjs) :
          /\ svcObjs'[s].status # "degraded"
          /\ svcObjs'[s].status # svcObjs[s].status
             => AllowedMove(svcObjs[s].status, svcObjs'[s].status)
          /\ svcObjs'[s].status = "checking" => ProbeInFlight(s)']_vars

\* C40: a health-check callback emits healed for an endpoint only if the
\* last status a settled probe had left on the endpoint, when the callback
\* began its probe, was unknown or unhealthy.
C40_HealedOnlyAfterDown ==
    [][\A i \in 1 .. Len(cycles) :
          (/\ probeSettles(i, TRUE)
           /\ Emits(autoEmitted', "config_event", <<"healed", cycles[i].svc>>))
          => cycles[i].before \in {"unknown", "unhealthy"}]_vars

\* C39: an endpoint whose settled status went from healthy to unhealthy is
\* not set healthy again before a disconnected event and a service-down
\* notification for it have been emitted.
C39_DownIsAnnounced ==
    [][\A s \in 1 .. Len(svcObjs) :
          (svcObjs[s].status # "healthy" /\ svcObjs'[s].status = "healthy")
          => s \notin unannounced]_vars

\* C38: no health-check callback starts while the registry is stopped.
C38_NoCycleWhenStopped ==
    [][healthCheckTick => autoRunning]_vars

\* the start call at index j has returned in this step
Returned(j) == Len(starts') = Len(starts) - 1

\* the start call at index j is suspended at await pc after this step
Suspended(j, pc) == Len(starts') = Len(starts) /\ starts'[j].pc = pc

\* this step armed the health-check interval
Armed == healthCheckInterval' /\ ~healthCheckInterval

\* the Map positions from `from` on whose endpoint is not healthy
NotHealthyFrom(objs, svcs, from) ==
    { p \in from .. Len(svcs) : objs[svcs[p]].status # "healthy" }

\* what a start call does when phase 2 is over: it probes the first endpoint
\* of the Map that is not healthy if autoConnect is on and there is one,
\* and otherwise arms the health-check interval and returns
AfterDiscovery(j) ==
    IF autoOptions.autoConnect /\ NotHealthyFrom(svcObjs', services', 1) # {}
    THEN Suspended(j, "connecting") /\ ~Armed
    ELSE Armed /\ Returned(j)

====
